---- MODULE Spec2Model ----
(***************************************************************************)
(* A model of the waveguide fiber Runtime (internal/runtime.ts, carried in *)
(* src/src/__test__/semaphore.spec.ts lines 158-528): the step loop, the   *)
(* call-frame stack, the ContextSwitch of an async boundary, error unwind  *)
(* and interrupt unwind.  Effects are the IO step tree; the functions an   *)
(* effect carries (continuations, thunks, register functions) are          *)
(* defunctionalised into tagged records.                                   *)
(***************************************************************************)
EXTENDS Integers, Sequences, FiniteSets, TLC

VARIABLES
  program,           \* the io given to Runtime.start, NoIO before start
  started,           \* Runtime.started
  callFrames,        \* Runtime.callFrames, top of the stack is the last element
  criticalSections,  \* Runtime.criticalSections
  interrupted,       \* Runtime.interrupted
  suspended,         \* Runtime.suspended
  cSwitch,           \* Runtime.cSwitch: 0 is none, n > 0 is some(switches[n])
  result,            \* Runtime.result (a OneShot): NoResult while unset
  switches,          \* every ContextSwitchImpl created so far
  current,           \* the local `current` of the running loop
  pc,                \* which loop of the runtime is on the host's call stack
  log,               \* ids written by the program's logging effects
  calls,             \* invocations of the program's continuations: <<id, arg>>
  installed,         \* ids of the finalizers whose Finalize frame was pushed
  handlers,          \* ids of the handlers whose Interrupt frame was pushed
  unwinding,         \* interruptFinalize() has been called
  history,           \* every value passed to result.set, in order
  fatal,             \* a programmer-error exception reached the host
  forked,            \* the effects given to fork, one per fiber
  runtimes,          \* the Runtime of each fiber
  listeners,         \* the listeners of each runtime's result cell, in registration order
  sem,               \* the Semaphore the fibers share
  hostStack,         \* the host's call stack: runs and calls in progress, top last
  early              \* the Runtime of packages/waveguide/src/runtime.ts

sysVars == <<forked, runtimes, listeners, sem, hostStack>>

vars == <<program, started, callFrames, criticalSections, interrupted, suspended, cSwitch,
          result, switches, current, pc, log, calls, installed, handlers,
          unwinding, history, fatal>>

-----------------------------------------------------------------------------
(* Bounds of the model. *)

\* number of nested wrappers around the body of a generated program
MaxWrap == 2

-----------------------------------------------------------------------------
(* Values, causes and results (result.ts). *)

Undefined == [tag |-> "undefined"]
UVal(n) == [tag |-> "val", v |-> n]

Raise(e) == [tag |-> "raise", error |-> e]
Abort(x) == [tag |-> "abort", abortedWith |-> x]
And(a, b) == [tag |-> "and", first |-> a, second |-> b]
Value(v) == [tag |-> "value", value |-> v]
Interrupted == [tag |-> "interrupted"]

NoResult == [tag |-> "unset"]
NoIO == [tag |-> "none"]

-----------------------------------------------------------------------------
(* The IO step tree (io.ts). *)

Of(v) == [tag |-> "of", value |-> v]
Failed(e) == [tag |-> "failed", error |-> e]
Raised(c) == [tag |-> "raised", raise |-> c]
Suspend(th) == [tag |-> "suspend", thunk |-> th]
Async(reg) == [tag |-> "async", start |-> reg]
Critical(io) == [tag |-> "critical", io |-> io]
Chain(left, k) == [tag |-> "chain", left |-> left, chain |-> k]
ChainError(left, k) == [tag |-> "chainerror", left |-> left, chain |-> k]
OnDone(first, always) == [tag |-> "ondone", first |-> first, always |-> always]
OnInterrupted(first, h) == [tag |-> "oninterrupted", first |-> first, interupted |-> h]

\* IO.eval(thunk) = suspend(() => of(thunk())): the thunk kinds below return
\* of(undefined) after their side effect.
Eval(th) == Suspend(th)

\* io.map(f) = io.chain(a => of(f(a)))
MapIO(io, f) == Chain(io, [k |-> "mapf", f |-> f])
\* io.as(b) = io.map(constant(b))
AsIO(io, b) == Chain(io, [k |-> "as", b |-> b])
\* io.applySecond(iob) = io.chain(_ => iob)
applySecond(io, iob) == Chain(io, [k |-> "const", io |-> iob])
\* iof.ap_(iob) = iof.chain(f => iob.map(f))
ap_(iof, iob) == Chain(iof, [k |-> "ap", io |-> iob])
\* io.resurrect(): the terminal outcome of io as a value
resurrect(io) == ChainError(Chain(io, [k |-> "value"]), [k |-> "pure"])
\* io.onComplete(fin)
onComplete(io, fin) == OnDone(io, fin)

\* Runtime.enterCritical / Runtime.leaveCritical
enterCritical == Eval([t |-> "enter"])
leaveCritical == Eval([t |-> "leave"])

\* the io a Finalize or Interrupt frame carries
Wrapped(body) == applySecond(applySecond(enterCritical, body), leaveCritical)

\* mutant of compositeCause: the finalizer's cause is put on the left
compositeCauseSwapped(base, more) == IF more.tag = "value" THEN base ELSE And(more, base)

\* compositeCause(base)(more)
compositeCause(base, more) == IF more.tag = "value" THEN base ELSE And(base, more)

CompositeCauseFn == [tag |-> "fn", name |-> "compositeCause"]

\* application of a function value carried through ap_
ApplyFn(f, x) ==
  IF f.name = "compositeCause"
    THEN [tag |-> "fn", name |-> "compositeCause1", base |-> x]
    ELSE compositeCause(f.base, x)

\* the effect a continuation returns for argument a
ApplyK(k, a) ==
  CASE k.k = "const" -> k.io
    [] k.k = "pure" -> Of(a)
    [] k.k = "as" -> Of(k.b)
    [] k.k = "value" -> Of(Value(a))
    [] k.k = "caused" -> Raised(a)
    [] k.k = "ap" -> MapIO(k.io, a)
    [] k.k = "mapf" -> Of(ApplyFn(k.f, a))
    [] k.k = "user" -> k.ret
    [] k.k = "flatten" -> a.io
    [] k.k = "bracket" ->
         Suspend([t |-> "bracketPush", resource |-> a,
                  release |-> k.release, consume |-> k.consume])

\* the program's own continuations record that they were invoked
RecordCall(cs, k, a) == IF k.k = "user" THEN Append(cs, <<k.id, a>>) ELSE cs

-----------------------------------------------------------------------------
(* Call frames. *)

ChainFrame(f) == [tag |-> "chain", f |-> f]
ErrorFrame(f) == [tag |-> "error", f |-> f]
FinalizeFrame(io) == [tag |-> "finalize", io |-> io]
InterruptFrame(io) == [tag |-> "interrupt", io |-> io]

\* mutant of FrameApply: an Interrupt frame runs its io like a Finalize frame
FrameApplyRunsHandler(frame, a) ==
  CASE frame.tag = "chain" -> ApplyK(frame.f, a)
    [] frame.tag = "error" -> Of(a)
    [] frame.tag = "interrupt" -> AsIO(frame.io, a)
    [] frame.tag = "finalize" -> AsIO(frame.io, a)

\* Frame.apply(a)
FrameApply(frame, a) ==
  CASE frame.tag = "chain" -> ApplyK(frame.f, a)
    [] frame.tag = "error" -> Of(a)
    [] frame.tag = "interrupt" -> Of(a)
    [] frame.tag = "finalize" -> AsIO(frame.io, a)

Top(stack) == stack[Len(stack)]
Pop(stack) == SubSeq(stack, 1, Len(stack) - 1)

-----------------------------------------------------------------------------
(* The runtime's operations, as functions of a record s that holds the      *)
(* fields of the Runtime and of the program around it.  s.threw says that a *)
(* host exception is in flight.                                             *)

\* the error OneShot.set throws when the cell is full
SetTwice == "OneShot is already set"

\* OneShot.set on Runtime.result: a second set throws, and fatal records it
ResultSet(s, r) ==
  IF s.result # NoResult
    THEN [s EXCEPT !.threw = TRUE, !.exc = SetTwice, !.fatal = TRUE]
    ELSE [s EXCEPT !.result = r, !.history = Append(@, r)]

\* Runtime.complete
complete(s, r) == IF s.result = NoResult THEN ResultSet(s, r) ELSE s

\* Runtime.interruptComplete
interruptComplete(s, r) == ResultSet(s, Interrupted)

\* the `complete` argument of step: complete in loop, interruptComplete in interruptLoop
Complete(s, r, mode) == IF mode = "loop" THEN complete(s, r) ELSE interruptComplete(s, r)

\* Runtime.popFrame
popFrame(s, v, mode) ==
  IF Len(s.callFrames) > 0
    THEN LET frame == Top(s.callFrames) IN
         [s EXCEPT !.callFrames = Pop(@),
                   !.calls = IF frame.tag = "chain" THEN RecordCall(@, frame.f, v) ELSE @,
                   !.current = FrameApply(frame, v)]
    ELSE [Complete(s, Value(v), mode) EXCEPT !.current = NoIO]

\* mutant of UnwindScan: a Chain frame catches the cause like an Error frame
RECURSIVE UnwindScanChainCatches(_, _)
UnwindScanChainCatches(stack, finalizers) ==
  IF Len(stack) = 0
    THEN [callFrames |-> stack, finalizers |-> finalizers, found |-> FALSE, frame |-> NoIO]
    ELSE LET candidate == Top(stack) IN
         IF candidate.tag \in {"error", "chain"}
           THEN [callFrames |-> Pop(stack), finalizers |-> finalizers,
                 found |-> TRUE, frame |-> candidate]
           ELSE UnwindScanChainCatches(Pop(stack),
                                       IF candidate.tag = "finalize"
                                         THEN Append(finalizers, candidate) ELSE finalizers)

\* mutant of UnwindScan: the finalizers are collected in push order
RECURSIVE UnwindScanPushOrder(_, _)
UnwindScanPushOrder(stack, finalizers) ==
  IF Len(stack) = 0
    THEN [callFrames |-> stack, finalizers |-> finalizers, found |-> FALSE, frame |-> NoIO]
    ELSE LET candidate == Top(stack) IN
         IF candidate.tag = "error"
           THEN [callFrames |-> Pop(stack), finalizers |-> finalizers,
                 found |-> TRUE, frame |-> candidate]
           ELSE UnwindScanPushOrder(Pop(stack),
                                    IF candidate.tag = "finalize"
                                      THEN <<candidate>> \o finalizers ELSE finalizers)

\* the while loop of unwindError: pops until an Error frame is met
RECURSIVE UnwindScan(_, _)
UnwindScan(stack, finalizers) ==
  IF Len(stack) = 0
    THEN [callFrames |-> stack, finalizers |-> finalizers, found |-> FALSE, frame |-> NoIO]
    ELSE LET candidate == Top(stack) IN
         IF candidate.tag = "error"
           THEN [callFrames |-> Pop(stack), finalizers |-> finalizers,
                 found |-> TRUE, frame |-> candidate]
           ELSE UnwindScan(Pop(stack),
                           IF candidate.tag = "finalize"
                             THEN Append(finalizers, candidate) ELSE finalizers)

\* finalizerIOs.reduce((before, after) => of(compositeCause).ap_(before).ap_(after.resurrect()), acc)
RECURSIVE ReduceComposite(_, _)
ReduceComposite(acc, ios) ==
  IF ios = <<>> THEN acc
  ELSE ReduceComposite(ap_(ap_(Of(CompositeCauseFn), acc), resurrect(Head(ios))), Tail(ios))

FrameIOs(frames) == [i \in 1..Len(frames) |-> frames[i].io]

createCompositeFinalizer(cause, finalizers) ==
  Chain(ReduceComposite(Of(cause), FrameIOs(finalizers)), [k |-> "caused"])

\* mutant of unwindError: the Error frame is not pushed back when finalizers
\* were collected
unwindErrorDropsHandler(s, cause, mode) ==
  LET u == UnwindScan(s.callFrames, <<>>) IN
  IF Len(u.finalizers) > 0
    THEN [s EXCEPT !.callFrames = u.callFrames,
                   !.current = createCompositeFinalizer(cause, u.finalizers)]
    ELSE IF u.found
      THEN [s EXCEPT !.callFrames = u.callFrames,
                     !.calls = RecordCall(@, u.frame.f, cause),
                     !.current = ApplyK(u.frame.f, cause)]
      ELSE [Complete([s EXCEPT !.callFrames = u.callFrames], cause, mode)
              EXCEPT !.current = NoIO]

\* Runtime.unwindError
unwindError(s, cause, mode) ==
  LET u == UnwindScan(s.callFrames, <<>>) IN
  IF Len(u.finalizers) > 0
    THEN [s EXCEPT !.callFrames = IF u.found THEN Append(u.callFrames, u.frame)
                                             ELSE u.callFrames,
                   !.current = createCompositeFinalizer(cause, u.finalizers)]
    ELSE IF u.found
      THEN [s EXCEPT !.callFrames = u.callFrames,
                     !.calls = RecordCall(@, u.frame.f, cause),
                     !.current = ApplyK(u.frame.f, cause)]
      ELSE [Complete([s EXCEPT !.callFrames = u.callFrames], cause, mode)
              EXCEPT !.current = NoIO]

\* the while loop of unwindInterrupt: the Finalize and Interrupt frames in pop order
RECURSIVE InterruptScan(_)
InterruptScan(stack) ==
  IF Len(stack) = 0 THEN <<>>
  ELSE LET candidate == Top(stack) IN
       IF candidate.tag \in {"finalize", "interrupt"}
         THEN <<candidate>> \o InterruptScan(Pop(stack))
         ELSE InterruptScan(Pop(stack))

\* ios.reduce((first, second) => first.applySecond(second.resurrect()).as(undefined), acc)
RECURSIVE ReduceInterrupt(_, _)
ReduceInterrupt(acc, ios) ==
  IF ios = <<>> THEN acc
  ELSE ReduceInterrupt(AsIO(applySecond(acc, resurrect(Head(ios))), Undefined), Tail(ios))

\* Runtime.unwindInterrupt: the combined finalizer, NoIO when there is none
unwindInterrupt(stack) ==
  LET finalizers == InterruptScan(stack) IN
  IF Len(finalizers) > 0
    THEN ReduceInterrupt(Of(Undefined), FrameIOs(finalizers))
    ELSE NoIO

\* Runtime.interruptFinalize: leaves the runtime at the head of interruptLoop
interruptFinalize(s) ==
  LET finalize == unwindInterrupt(s.callFrames)
      s1 == [s EXCEPT !.callFrames = <<>>, !.unwinding = TRUE] IN
  IF finalize # NoIO
    THEN [s1 EXCEPT !.current = finalize, !.pc = "interruptLoop"]
    ELSE [ResultSet(s1, Interrupted) EXCEPT !.current = NoIO, !.pc = "idle"]

-----------------------------------------------------------------------------
(* ContextSwitchImpl.  armed: the register function kept the callback and  *)
(* the host may still call resume through it.  later: the result a         *)
(* resumeLater has queued with setTimeout, NoResult when none is queued.   *)

NewSwitch(mode) ==
  [delivered |-> FALSE, aborted |-> FALSE, abort |-> FALSE, mode |-> mode,
   armed |-> FALSE, later |-> NoResult]

\* ContextSwitchImpl.isInterruptible
isInterruptible(cs) == cs.abort

\* the ids a program's logging effects write, found in an effect tree
RECURSIVE Labels(_)
Labels(io) ==
  CASE io.tag = "suspend" -> IF io.thunk.t = "log" THEN {io.thunk.id} ELSE {}
    [] io.tag = "critical" -> Labels(io.io)
    [] io.tag \in {"chain", "chainerror"} ->
         Labels(io.left) \cup (IF io.chain.k = "const" THEN Labels(io.chain.io) ELSE {})
    [] io.tag = "ondone" -> Labels(io.first) \cup Labels(io.always)
    [] io.tag = "oninterrupted" -> Labels(io.first) \cup Labels(io.interupted)
    [] OTHER -> {}

\* the callback given to new ContextSwitchImpl in Runtime.contextSwitch
Go(s, id, r) ==
  LET mode == s.switches[id].mode
      s1 == [s EXCEPT !.suspended = FALSE, !.cSwitch = 0]
      s2 == IF r.tag = "value" THEN popFrame(s1, r.value, mode)
                               ELSE unwindError(s1, r, mode) IN
  IF s2.threw THEN s2
  ELSE IF s2.current # NoIO
    THEN [s2 EXCEPT !.pc = mode, !.entered = TRUE]
    ELSE [s2 EXCEPT !.pc = "idle"]

-----------------------------------------------------------------------------
(* Fibers and the semaphore.  When several runtimes run together, the      *)
(* record s of a runtime also holds: self, the runtime's fiber id; results,*)
(* the result cell of every runtime; listeners, the listeners of every     *)
(* result cell; sem, the semaphore; out, the calls into other runtimes     *)
(* that the step has made, in order.                                       *)

JoinAbort == Abort("Join on interrupted fiber")

\* mutant of joinListener: the test of the result's tag is missing
joinListenerNoTest(r) == <<r, JoinAbort>>

\* the listener of Fiber.join: the results it passes to contextSwitch.resume
joinListener(r) == IF r.tag # "interrupted" THEN <<r, JoinAbort>> ELSE <<JoinAbort>>

\* mutant of waitListener: the result is passed on as it is
waitListenerRaw(r) == <<r>>

\* the listener of Fiber.wait
waitListener(r) == <<Value(r)>>

ListenerCalls(kind, r) == IF kind = "join" THEN joinListener(r) ELSE waitListener(r)

\* calls into other runtimes
InterruptCall(g) == [t |-> "interrupt", f |-> g]
ResumeCalls(f, id, rs) == [t |-> "resume", f |-> f, id |-> id, rs |-> rs]

\* a value that is an effect (the result of Ref.modify in acquireN)
IOVal(io) == [tag |-> "io", io |-> io]
BoolVal(b) == [tag |-> "bool", b |-> b]

\* Fiber.join, Fiber.wait, Fiber.interrupt, Fiber.interruptAndWait of fiber g
join(g) == Async([r |-> "join", target |-> g])
wait(g) == Async([r |-> "wait", target |-> g])
fiberInterrupt(g) == Eval([t |-> "fiberInterrupt", target |-> g])
interruptAndWait(g) == applySecond(fiberInterrupt(g), wait(g))

\* Semaphore: count, the FIFO queue of waiters (n, deferred d, fiber f), the
\* deferreds filled so far and the listener of each awaited deferred; held is
\* the balance of each fiber: permits granted to it minus permits it released
NewSemaphore(c) ==
  [count |-> c, waiters |-> <<>>, next |-> 1, filled |-> {}, listening |-> {},
   held |-> <<>>]

\* mutant of Drain: any waiter that fits is served, not only the head
RECURSIVE DrainAnyFit(_, _)
DrainAnyFit(sm, woken) ==
  LET fit == {i \in DOMAIN sm.waiters : sm.waiters[i].n <= sm.count} IN
  IF fit = {} THEN [sem |-> sm, woken |-> woken]
  ELSE LET i == CHOOSE j \in fit : \A k \in fit : j <= k
           w == sm.waiters[i] IN
       DrainAnyFit([sm EXCEPT !.count = @ - w.n, !.held[w.f] = @ + w.n,
                               !.waiters = SubSeq(@, 1, i - 1) \o SubSeq(@, i + 1, Len(@))],
                   Append(woken, w.d))

\* releaseN: waiters are drained from the head while the next one can be
\* fully satisfied
RECURSIVE Drain(_, _)
Drain(sm, woken) ==
  IF Len(sm.waiters) > 0 /\ Head(sm.waiters).n <= sm.count
    THEN Drain([sm EXCEPT !.count = @ - Head(sm.waiters).n,
                          !.held[Head(sm.waiters).f] = @ + Head(sm.waiters).n,
                          !.waiters = Tail(@)],
               Append(woken, Head(sm.waiters).d))
    ELSE [sem |-> sm, woken |-> woken]

\* Deferred.fill of the woken waiters' deferreds, in order: a listener is
\* called at once, a deferred nobody awaits yet is left filled
RECURSIVE FillAll(_, _)
FillAll(s, woken) ==
  IF woken = <<>> THEN s
  ELSE LET d == Head(woken)
           ls == {l \in s.sem.listening : l.d = d}
           s1 == [s EXCEPT !.sem.filled = @ \cup {d}, !.sem.listening = @ \ ls] IN
       FillAll(IF ls = {} THEN s1
               ELSE LET l == CHOOSE x \in ls : TRUE IN
                    [s1 EXCEPT !.out = Append(@, ResumeCalls(l.f, l.id, <<Value(Undefined)>>))],
               Tail(woken))

\* mutant of semAcquire: a request for all the permits that are left waits
semAcquireStrict(s, n) ==
  IF s.sem.count > n
    THEN [s EXCEPT !.sem.count = @ - n, !.sem.held[s.self] = @ + n,
                   !.current = Of(IOVal(Of(Undefined)))]
    ELSE LET d == s.sem.next IN
         [s EXCEPT !.sem.waiters = Append(@, [n |-> n, d |-> d, f |-> s.self]),
                   !.sem.next = @ + 1,
                   !.current = Of(IOVal(Async([r |-> "deferredWait", d |-> d])))]

\* the state change of acquireN(n): the permits are taken, or a waiter is
\* enqueued; the value is the effect to continue with
semAcquire(s, n) ==
  IF s.sem.count >= n
    THEN [s EXCEPT !.sem.count = @ - n, !.sem.held[s.self] = @ + n,
                   !.current = Of(IOVal(Of(Undefined)))]
    ELSE LET d == s.sem.next IN
         [s EXCEPT !.sem.waiters = Append(@, [n |-> n, d |-> d, f |-> s.self]),
                   !.sem.next = @ + 1,
                   !.current = Of(IOVal(Async([r |-> "deferredWait", d |-> d])))]

\* mutant of semRelease: the permits are added, no waiter is woken
semReleaseNoDrain(s, n) ==
  [s EXCEPT !.sem.count = @ + n, !.sem.held[s.self] = @ - n, !.current = Of(Undefined)]

\* releaseN(n)
semRelease(s, n) ==
  LET r == Drain([s.sem EXCEPT !.count = @ + n, !.held[s.self] = @ - n], <<>>) IN
  [FillAll([s EXCEPT !.sem = r.sem], r.woken) EXCEPT !.current = Of(Undefined)]

\* mutant of semTryAcquire: a failed attempt still takes what is there
semTryAcquireTakes(s, n) ==
  IF s.sem.count >= n
    THEN [s EXCEPT !.sem.count = @ - n, !.sem.held[s.self] = @ + n,
                   !.current = Of(BoolVal(TRUE))]
    ELSE [s EXCEPT !.sem.count = 0, !.current = Of(BoolVal(FALSE))]

\* tryAcquireN(n)
semTryAcquire(s, n) ==
  IF s.sem.count >= n
    THEN [s EXCEPT !.sem.count = @ - n, !.sem.held[s.self] = @ + n,
                   !.current = Of(BoolVal(TRUE))]
    ELSE [s EXCEPT !.current = Of(BoolVal(FALSE))]

\* the thunks of Fiber.interrupt and of the semaphore
SysThunk(s, th) ==
  CASE th.t = "fiberInterrupt" ->
         [s EXCEPT !.out = Append(@, InterruptCall(th.target)), !.current = Of(Undefined)]
    [] th.t = "semAcquire" -> semAcquire(s, th.n)
    [] th.t = "semRelease" -> semRelease(s, th.n)
    [] th.t = "semTryAcquire" -> semTryAcquire(s, th.n)

\* mutant of cancelWait: the waiter stays in the queue
cancelWaitKeeps(sm, d) == [sm EXCEPT !.listening = {l \in @ : l.d # d}]

\* the cancel action of a waiter: it leaves the queue
cancelWait(sm, d) ==
  [sm EXCEPT !.waiters = SelectSeq(@, LAMBDA w : w.d # d),
              !.listening = {l \in @ : l.d # d}]

\* the register functions of Fiber.join, Fiber.wait and of a waiter's
\* Deferred.wait; s is the runtime after contextSwitch has installed switch id
SysRegister(s, id, reg) ==
  LET able(onAbort) ==
        [s.switches[id] EXCEPT !.abort = TRUE] @@ [onAbort |-> onAbort] IN
  CASE reg.r \in {"join", "wait"} ->
         LET r == s.results[reg.target]
             onAbort == [kind |-> "unlisten", target |-> reg.target] IN
         IF r # NoResult
           THEN Go([s EXCEPT !.switches[id] = [able(onAbort) EXCEPT !.delivered = TRUE]],
                   id, Head(ListenerCalls(reg.r, r)))
           ELSE [s EXCEPT !.switches[id] = able(onAbort),
                          !.listeners[reg.target] =
                             Append(@, [f |-> s.self, id |-> id, kind |-> reg.r])]
    [] reg.r = "deferredWait" ->
         LET onAbort == [kind |-> "cancelWait", d |-> reg.d] IN
         IF reg.d \in s.sem.filled
           THEN Go([s EXCEPT !.switches[id] = [able(onAbort) EXCEPT !.delivered = TRUE]],
                   id, Value(Undefined))
           ELSE [s EXCEPT !.switches[id] = able(onAbort),
                          !.sem.listening = @ \cup {[d |-> reg.d, f |-> s.self, id |-> id]}]

\* mutant of AbortEffect: the cancel action is not called
AbortEffectSkipped(s, sw) == s

\* mutant of AbortEffect: unlisten removes every listener of the target
AbortEffectUnlistensAll(s, sw) ==
  IF "onAbort" \notin DOMAIN sw THEN s
  ELSE IF sw.onAbort.kind = "unlisten"
    THEN [s EXCEPT !.listeners[sw.onAbort.target] = <<>>]
    ELSE [s EXCEPT !.sem = cancelWait(@, sw.onAbort.d)]

\* ContextSwitchImpl.interrupt calls the cancel action given to setAbort
AbortEffect(s, sw) ==
  IF "onAbort" \notin DOMAIN sw THEN s
  ELSE IF sw.onAbort.kind = "unlisten"
    THEN [s EXCEPT !.listeners[sw.onAbort.target] =
                      SelectSeq(@, LAMBDA l : l.f # s.self)]
    ELSE [s EXCEPT !.sem = cancelWait(@, sw.onAbort.d)]

\* Runtime.contextSwitch, with the register function go(cSwitch) it calls
contextSwitch(s, reg, mode) ==
  LET id == Len(s.switches) + 1
      s1 == [s EXCEPT !.switches = Append(@, NewSwitch(mode)),
                      !.cSwitch = id, !.suspended = TRUE, !.current = NoIO] IN
  CASE reg.r = "plain" -> [s1 EXCEPT !.switches[id].armed = TRUE]
    [] reg.r = "abortable" ->
         [s1 EXCEPT !.switches[id].armed = TRUE, !.switches[id].abort = TRUE]
    [] reg.r = "sync" -> Go([s1 EXCEPT !.switches[id].delivered = TRUE], id, reg.res)
    [] reg.r = "later" ->
         [s1 EXCEPT !.switches[id].delivered = TRUE, !.switches[id].later = reg.res,
                    !.switches[id].abort = reg.abortable]
    [] reg.r = "throw" -> [s1 EXCEPT !.threw = TRUE, !.exc = reg.x]
    [] OTHER -> SysRegister(s1, id, reg)

\* mutant of interrupt: the criticalSections test is missing
interruptIgnoresCritical(s) ==
  IF s.result = NoResult /\ ~s.interrupted
    THEN LET s1 == [s EXCEPT !.interrupted = TRUE] IN
         IF s1.suspended /\ s1.cSwitch # 0 /\ isInterruptible(s1.switches[s1.cSwitch])
           THEN interruptFinalize(
                  [s1 EXCEPT !.switches[s1.cSwitch].aborted = TRUE])
           ELSE s1
    ELSE s

\* Runtime.interrupt
interrupt(s) ==
  IF s.result = NoResult /\ ~s.interrupted
    THEN LET s1 == [s EXCEPT !.interrupted = TRUE] IN
         IF s1.criticalSections = 0
           THEN IF s1.suspended /\ s1.cSwitch # 0 /\ isInterruptible(s1.switches[s1.cSwitch])
                  THEN interruptFinalize(
                         [s1 EXCEPT !.switches[s1.cSwitch].aborted = TRUE])
                  ELSE s1
           ELSE s1
    ELSE s

\* the thunk of a suspend step
RunThunk(s, th) ==
  CASE th.t = "enter" ->
         [s EXCEPT !.criticalSections = @ + 1, !.current = Of(Undefined)]
    [] th.t = "leave" ->
         [s EXCEPT !.criticalSections = @ - 1, !.current = Of(Undefined)]
    [] th.t = "log" -> [s EXCEPT !.log = Append(@, th.id), !.current = Of(Undefined)]
    [] th.t = "throw" -> [s EXCEPT !.threw = TRUE, !.exc = th.x]
    [] th.t = "interrupt" ->
         LET s1 == interrupt(s) IN
         IF s1.unwinding # s.unwinding
           THEN [s1 EXCEPT !.pc = "nested"]
           ELSE [s1 EXCEPT !.current = Of(Undefined)]
    [] OTHER -> SysThunk(s, th)

\* the body of the try block of Runtime.step
StepTry(s, mode) ==
  LET c == s.current IN
  CASE c.tag = "of" -> popFrame(s, c.value, mode)
    [] c.tag = "failed" -> unwindError(s, Raise(c.error), mode)
    [] c.tag = "raised" -> unwindError(s, c.raise, mode)
    [] c.tag = "suspend" -> RunThunk(s, c.thunk)
    [] c.tag = "async" -> contextSwitch(s, c.start, mode)
    [] c.tag = "critical" ->
         [s EXCEPT !.current = applySecond(enterCritical, onComplete(c.io, leaveCritical))]
    [] c.tag = "chain" ->
         [s EXCEPT !.callFrames = Append(@, ChainFrame(c.chain)), !.current = c.left]
    [] c.tag = "chainerror" ->
         [s EXCEPT !.callFrames = Append(@, ErrorFrame(c.chain)), !.current = c.left]
    [] c.tag = "ondone" ->
         [s EXCEPT !.callFrames = Append(@, FinalizeFrame(Wrapped(c.always))),
                   !.installed = @ \cup Labels(c.always),
                   !.current = c.first]
    [] c.tag = "oninterrupted" ->
         [s EXCEPT !.callFrames = Append(@, InterruptFrame(Wrapped(c.interupted))),
                   !.handlers = @ \cup Labels(c.interupted),
                   !.current = c.first]

\* mutant of step: the catch block is missing
stepNoCatch(s, mode) == StepTry(s, mode)

\* Runtime.step: a host exception becomes IO.aborted(new Abort(e))
step(s, mode) ==
  LET r == StepTry(s, mode) IN
  IF r.threw
    THEN [r EXCEPT !.threw = FALSE, !.current = Raised(Abort(r.exc))]
    ELSE r

\* Runtime.loop after its do-while has ended with a current effect: the
\* cleanup of a pending ondone / oninterrupted is pushed, then interruptFinalize
LoopExit(s) ==
  LET c == s.current
      s1 == CASE c.tag = "oninterrupted" ->
                   [s EXCEPT !.callFrames = Append(@, InterruptFrame(Wrapped(c.interupted))),
                             !.handlers = @ \cup Labels(c.interupted)]
              [] c.tag = "ondone" ->
                   [s EXCEPT !.callFrames = Append(@, FinalizeFrame(Wrapped(c.always))),
                             !.installed = @ \cup Labels(c.always)]
              [] OTHER -> s IN
  interruptFinalize(s1)

\* the condition of the do-while of Runtime.loop
LoopContinues(s) == s.current # NoIO /\ (~s.interrupted \/ s.criticalSections > 0)

\* one iteration of the do-while of Runtime.loop, and what follows the loop
\* when the iteration was its last
LoopIteration(s) ==
  LET s1 == step(s, "loop") IN
  IF s1.entered \/ s1.pc = "nested" THEN [s1 EXCEPT !.entered = FALSE]
  ELSE IF LoopContinues(s1) THEN s1
  ELSE IF s1.current # NoIO THEN LoopExit(s1)
  ELSE [s1 EXCEPT !.pc = "idle"]

\* one iteration of the while of Runtime.interruptLoop
InterruptLoopIteration(s) ==
  LET s1 == step(s, "interruptLoop") IN
  IF s1.entered \/ s1.pc = "nested" THEN [s1 EXCEPT !.entered = FALSE]
  ELSE IF s1.current # NoIO THEN s1
  ELSE [s1 EXCEPT !.pc = "idle"]

-----------------------------------------------------------------------------
(* The programs given to Runtime.start. *)

FinId(n) == [kind |-> "fin", n |-> n]
HandlerId(n) == [kind |-> "handler", n |-> n]
ChainId(n) == [kind |-> "chain", n |-> n]
ErrorId(n) == [kind |-> "error", n |-> n]

\* IO.eval(() => log.push(id))
Log(id) == Eval([t |-> "log", id |-> id])
\* IO.suspend(() => { throw x })
Throw(x) == Suspend([t |-> "throw", x |-> x])
\* a continuation of the program: records its argument, returns ret
UserK(id, ret) == [k |-> "user", id |-> id, ret |-> ret]

\* async steps by what their register function does
AsyncPlain == Async([r |-> "plain"])            \* keeps the callback, no setAbort
AsyncAbortable == Async([r |-> "abortable"])    \* keeps the callback, calls setAbort
AsyncSync(res) == Async([r |-> "sync", res |-> res])   \* calls resume(res) at once
AsyncLater(res, abortable) ==                   \* calls resumeLater(res)
  Async([r |-> "later", res |-> res, abortable |-> abortable])
AsyncThrow(x) == Async([r |-> "throw", x |-> x])       \* throws

\* finalizers: one that succeeds, one that defects, one that suspends; each
\* logs its id as its first step
FinOk(n) == Log(FinId(n))
FinDefect(n) == applySecond(Log(FinId(n)), Throw(FinId(n)))
FinAsync(n) == applySecond(Log(FinId(n)), AsyncPlain)

Bodies ==
  { Of(UVal(1)), Failed("e"), Throw("x"),
    AsyncPlain, AsyncAbortable, AsyncSync(Value(UVal(1))),
    AsyncLater(Value(UVal(1)), TRUE), AsyncLater(Value(UVal(1)), FALSE),
    AsyncThrow("x"),
    applySecond(Eval([t |-> "interrupt"]), Of(UVal(1))) }

\* the effects built around io at nesting level n
Wraps(io, n) ==
  { OnDone(io, FinOk(n)), OnDone(io, FinDefect(n)), OnDone(io, FinAsync(n)),
    OnInterrupted(io, Log(HandlerId(n))),
    Chain(io, UserK(ChainId(n), Of(UVal(2)))),
    Chain(io, UserK(ChainId(n), AsyncAbortable)),
    ChainError(io, UserK(ErrorId(n), Of(UVal(3)))),
    Critical(io) }

RECURSIVE Gen(_)
Gen(n) == IF n = 0 THEN Bodies
          ELSE LET prev == Gen(n - 1) IN prev \cup UNION { Wraps(io, n) : io \in prev }

Programs == Gen(MaxWrap)

\* what the host delivers through a kept callback
ResumeResults == { Value(UVal(1)), Raise("r") }

-----------------------------------------------------------------------------
(* The earlier Runtime of packages/waveguide/src/runtime.ts: one loop, the  *)
(* frames Chain, Error and Finalize, the steps finally and bracket, halt    *)
(* through a Fuse.  e is the record of its fields and of the program around *)
(* it.                                                                      *)

\* the steps of the earlier IO
Finally(first, always) == [tag |-> "finally", first |-> first, always |-> always]
Bracket(resource, release, consume) ==
  [tag |-> "bracket", resource |-> resource, release |-> release, consume |-> consume]

\* the results of the earlier Runtime
Completed(v) == [tag |-> "completed", value |-> v]
FailedWith(c) == [tag |-> "failed", cause |-> c]
Killed == [tag |-> "killed"]

\* `let frame: ErrorFrame | undefined` starts undefined; null is another value
UndefinedFrame == [tag |-> "undefined"]
NullFrame == [tag |-> "null"]

\* the state of the earlier Runtime after construction; fuse is "null", then
\* "armed" while a boundary waits for its callback, "blown" once the callback
\* has delivered, "blocked" after Fuse.block
NewEarly ==
  [program |-> NoIO, started |-> FALSE, fuse |-> "null", callFrames |-> <<>>,
   halting |-> FALSE, result |-> NoResult, current |-> NoIO, pc |-> "idle",
   log |-> <<>>, calls |-> <<>>, installed |-> {}, fatal |-> FALSE]

\* this.result.set(r): a second set throws to the host
EarlyResultSet(e, r) ==
  IF e.result # NoResult THEN [e EXCEPT !.fatal = TRUE, !.pc = "idle"]
                         ELSE [e EXCEPT !.result = r]

\* Runtime.popFrame of the earlier Runtime
EarlyPopFrame(e, v) ==
  IF Len(e.callFrames) > 0
    THEN LET frame == Top(e.callFrames) IN
         [e EXCEPT !.callFrames = Pop(@),
                   !.calls = IF frame.tag = "chain" THEN RecordCall(@, frame.f, v) ELSE @,
                   !.current = FrameApply(frame, v)]
    ELSE [EarlyResultSet(e, Completed(v)) EXCEPT !.current = NoIO]

\* the while loop of the earlier unwindError: `while (frame === null && ...)`
RECURSIVE EarlyUnwindScan(_, _, _)
EarlyUnwindScan(stack, finalizers, frame) ==
  IF frame = NullFrame /\ Len(stack) > 0
    THEN LET candidate == Top(stack) IN
         EarlyUnwindScan(Pop(stack),
                         IF candidate.tag = "finalize"
                           THEN Append(finalizers, candidate) ELSE finalizers,
                         IF candidate.tag = "error" THEN candidate ELSE frame)
    ELSE [callFrames |-> stack, finalizers |-> finalizers, frame |-> frame]

\* Runtime.unwindError of the earlier Runtime
EarlyUnwindError(e, cause) ==
  LET u == EarlyUnwindScan(e.callFrames, <<>>, UndefinedFrame)
      found == u.frame # UndefinedFrame /\ u.frame # NullFrame IN
  IF Len(u.finalizers) > 0
    THEN [e EXCEPT !.callFrames = IF found THEN Append(u.callFrames, u.frame)
                                           ELSE u.callFrames,
                   !.current = createCompositeFinalizer(cause, u.finalizers)]
    ELSE IF found
      THEN [e EXCEPT !.callFrames = u.callFrames,
                     !.calls = RecordCall(@, u.frame.f, cause),
                     !.current = ApplyK(u.frame.f, cause)]
      ELSE [EarlyResultSet([e EXCEPT !.callFrames = u.callFrames], FailedWith(cause))
              EXCEPT !.current = NoIO]

\* the thunk of a suspend step, with the catch around it
EarlyThunk(e, th) ==
  CASE th.t = "log" -> [e EXCEPT !.log = Append(@, th.id), !.current = Of(Undefined)]
    [] th.t = "throw" -> [e EXCEPT !.current = Raised(Abort(th.x))]
    [] th.t = "bracketPush" ->
         [e EXCEPT !.callFrames = @ \o <<FinalizeFrame(ApplyK(th.release, th.resource)),
                                        ChainFrame(th.consume)>>,
                   !.installed = @ \cup Labels(ApplyK(th.release, th.resource)),
                   !.current = Of(th.resource)]

\* one iteration of the while of the earlier Runtime.loop; an async step ends
\* the loop and hop(boundary.start) arms a new Fuse
EarlyLoopIteration(e) ==
  LET c == e.current
      e1 == CASE c.tag = "of" -> EarlyPopFrame(e, c.value)
              [] c.tag = "failed" -> EarlyUnwindError(e, Raise(c.error))
              [] c.tag = "raised" -> EarlyUnwindError(e, c.raise)
              [] c.tag = "suspend" -> EarlyThunk(e, c.thunk)
              [] c.tag = "async" -> [e EXCEPT !.current = NoIO, !.fuse = "armed"]
              [] c.tag = "chain" ->
                   [e EXCEPT !.callFrames = Append(@, ChainFrame(c.chain)), !.current = c.left]
              [] c.tag = "chainerror" ->
                   [e EXCEPT !.callFrames = Append(@, ErrorFrame(c.chain)), !.current = c.left]
              [] c.tag = "finally" ->
                   [e EXCEPT !.callFrames = Append(@, FinalizeFrame(c.always)),
                             !.installed = @ \cup Labels(c.always),
                             !.current = c.first]
              [] c.tag = "bracket" ->
                   [e EXCEPT !.current =
                      Chain(c.resource, [k |-> "bracket", release |-> c.release,
                                         consume |-> c.consume])] IN
  IF e1.current = NoIO THEN [e1 EXCEPT !.pc = "idle"] ELSE e1

\* the callback given to fuse.adapted in asyncHop
EarlyCallback(e, r) ==
  LET e1 == IF r.tag = "value" THEN EarlyPopFrame(e, r.value) ELSE EarlyUnwindError(e, r) IN
  IF e1.current # NoIO THEN [e1 EXCEPT !.pc = "loop"] ELSE e1

\* Runtime.halt: this.fuse!.block() throws when no boundary was met yet
EarlyHalted(e) ==
  IF e.result = NoResult /\ ~e.halting
    THEN IF e.fuse = "null"
           THEN [e EXCEPT !.halting = TRUE, !.fatal = TRUE]
           ELSE EarlyResultSet([e EXCEPT !.halting = TRUE, !.fuse = "blocked"], Killed)
    ELSE e

\* the programs given to the earlier Runtime
EarlyBodies == { Of(UVal(1)), Failed("e"), Throw("x"), AsyncPlain }

EarlyWraps(io, n) ==
  { Finally(io, FinOk(n)), Finally(io, FinDefect(n)),
    Bracket(Of(UVal(0)), [k |-> "const", io |-> FinOk(n)], [k |-> "const", io |-> io]),
    Chain(io, UserK(ChainId(n), Of(UVal(2)))),
    ChainError(io, UserK(ErrorId(n), Of(UVal(3)))) }

RECURSIVE EarlyGen(_)
EarlyGen(n) == IF n = 0 THEN EarlyBodies
               ELSE LET prev == EarlyGen(n - 1) IN
                    prev \cup UNION { EarlyWraps(io, n) : io \in prev }

EarlyPrograms == EarlyGen(MaxWrap)

-----------------------------------------------------------------------------
(* The state machine. *)

State ==
  [started |-> started, callFrames |-> callFrames, criticalSections |-> criticalSections,
   interrupted |-> interrupted, suspended |-> suspended, cSwitch |-> cSwitch,
   result |-> result, switches |-> switches, current |-> current, pc |-> pc,
   log |-> log, calls |-> calls, installed |-> installed, handlers |-> handlers,
   unwinding |-> unwinding, history |-> history, fatal |-> fatal,
   threw |-> FALSE, exc |-> "", entered |-> FALSE]

\* the next state is s; an exception still in flight has reached the host
Commit(s) ==
  /\ started' = s.started
  /\ callFrames' = s.callFrames
  /\ criticalSections' = s.criticalSections
  /\ interrupted' = s.interrupted
  /\ suspended' = s.suspended
  /\ cSwitch' = s.cSwitch
  /\ result' = s.result
  /\ switches' = s.switches
  /\ current' = IF s.threw THEN NoIO ELSE s.current
  /\ pc' = IF s.threw THEN "idle" ELSE s.pc
  /\ log' = s.log
  /\ calls' = s.calls
  /\ installed' = s.installed
  /\ handlers' = s.handlers
  /\ unwinding' = s.unwinding
  /\ history' = s.history
  /\ fatal' = (s.fatal \/ s.threw)
  /\ UNCHANGED <<sysVars, early>>

\* the state of a Runtime after construction
RuntimeInit ==
  /\ program = NoIO
  /\ started = FALSE
  /\ callFrames = <<>>
  /\ criticalSections = 0
  /\ interrupted = FALSE
  /\ suspended = TRUE
  /\ cSwitch = 0
  /\ result = NoResult
  /\ switches = <<>>
  /\ current = NoIO
  /\ pc = "idle"
  /\ log = <<>>
  /\ calls = <<>>
  /\ installed = {}
  /\ handlers = {}
  /\ unwinding = FALSE
  /\ history = <<>>
  /\ fatal = FALSE

Init ==
  /\ RuntimeInit
  /\ forked = <<>>
  /\ runtimes = <<>>
  /\ listeners = <<>>
  /\ sem = NewSemaphore(0)
  /\ hostStack = <<>>
  /\ early = NewEarly

\* Runtime.start(io): loopResume(io) enters the do-while of loop
Start ==
  /\ ~started
  /\ pc = "idle"
  /\ \E io \in Programs :
       /\ program' = io
       /\ Commit([State EXCEPT !.started = TRUE, !.current = io, !.pc = "loop"])

\* the running loop makes its next iteration
LoopStep ==
  /\ pc = "loop"
  /\ UNCHANGED program
  /\ Commit(LoopIteration(State))

\* the running interruptLoop makes its next iteration
InterruptLoopStep ==
  /\ pc = "interruptLoop"
  /\ UNCHANGED program
  /\ Commit(InterruptLoopIteration(State))

\* another fiber or the host calls Runtime.interrupt() while this runtime is
\* not running
Interrupt ==
  /\ pc = "idle"
  /\ result = NoResult
  /\ ~interrupted
  /\ UNCHANGED program
  /\ Commit(interrupt(State))

\* the host calls ContextSwitchImpl.resume(r) through a kept callback
Resume(id, r) ==
  /\ pc = "idle"
  /\ switches[id].armed
  /\ UNCHANGED program
  /\ LET s == [State EXCEPT !.switches[id].armed = FALSE] IN
     IF ~s.switches[id].aborted /\ ~s.switches[id].delivered
       THEN Commit([Go([s EXCEPT !.switches[id].delivered = TRUE], id, r)
                      EXCEPT !.entered = FALSE])
       ELSE Commit(s)

\* the timer queued by ContextSwitchImpl.resumeLater fires
DeliverLater(id) ==
  /\ pc = "idle"
  /\ switches[id].later # NoResult
  /\ UNCHANGED program
  /\ Commit([Go([State EXCEPT !.switches[id].later = NoResult], id, switches[id].later)
               EXCEPT !.entered = FALSE])

Next ==
  \/ Start
  \/ LoopStep
  \/ InterruptLoopStep
  \/ Interrupt
  \/ \E id \in DOMAIN switches : \E r \in ResumeResults : Resume(id, r)
  \/ \E id \in DOMAIN switches : DeliverLater(id)

Spec == Init /\ [][Next]_vars

\* the modelling of a self-interrupt as one step is sound: interrupt() called
\* from inside a running loop never starts a nested interruptFinalize
NoNestedFinalize == pc # "nested"

-----------------------------------------------------------------------------
(* Several fibers on one host: each has its own Runtime, they share the    *)
(* semaphore, and a call from one runtime into another (a listener of a    *)
(* result cell, Deferred.fill, Runtime.interrupt) runs on top of the       *)
(* caller on the host's call stack and returns before the caller goes on.  *)

\* largest number of permits of a request, and of the semaphore at the start
MaxPermits == 2

Fibers == DOMAIN forked

NewRuntime ==
  [started |-> FALSE, callFrames |-> <<>>, criticalSections |-> 0,
   interrupted |-> FALSE, suspended |-> TRUE, cSwitch |-> 0,
   result |-> NoResult, switches |-> <<>>, current |-> NoIO, pc |-> "idle",
   log |-> <<>>, calls |-> <<>>, installed |-> {}, handlers |-> {},
   unwinding |-> FALSE, history |-> <<>>, fatal |-> FALSE,
   threw |-> FALSE, exc |-> "", entered |-> FALSE]

\* the runtime of fiber f with what it shares with the others
WithEnv(f) ==
  runtimes[f] @@ [self |-> f, results |-> [g \in Fibers |-> runtimes[g].result],
                  listeners |-> listeners, sem |-> sem, out |-> <<>>]

\* the fields of s that belong to the runtime
OwnFields(s) ==
  [started |-> s.started, callFrames |-> s.callFrames,
   criticalSections |-> s.criticalSections, interrupted |-> s.interrupted,
   suspended |-> s.suspended, cSwitch |-> s.cSwitch, result |-> s.result,
   switches |-> s.switches,
   current |-> IF s.threw THEN NoIO ELSE s.current,
   pc |-> IF s.threw THEN "idle" ELSE s.pc,
   log |-> s.log, calls |-> s.calls, installed |-> s.installed,
   handlers |-> s.handlers, unwinding |-> s.unwinding, history |-> s.history,
   fatal |-> (s.fatal \/ s.threw), threw |-> FALSE, exc |-> "", entered |-> FALSE]

Reverse(q) == [i \in 1..Len(q) |-> q[Len(q) + 1 - i]]

RunFrame(f) == [t |-> "run", f |-> f]

\* OneShot.set calls the listeners in registration order
Notify(ls, r) == [i \in 1..Len(ls) |-> ResumeCalls(ls[i].f, ls[i].id, ListenerCalls(ls[i].kind, r))]

\* fiber f has made the step that leads to s, with `below` under it on the
\* host's stack: the calls the step made run first, in order, then f goes on
SysCommit(f, s, below) ==
  LET set == runtimes[f].result = NoResult /\ s.result # NoResult
      made == (IF set THEN Notify(s.listeners[f], s.result) ELSE <<>>) \o s.out
      own == IF s.pc # "idle" /\ ~s.threw /\ \A i \in DOMAIN below : below[i] # RunFrame(f)
               THEN <<RunFrame(f)>> ELSE <<>> IN
  /\ runtimes' = [runtimes EXCEPT ![f] = OwnFields(s)]
  /\ listeners' = IF set THEN [s.listeners EXCEPT ![f] = <<>>] ELSE s.listeners
  /\ sem' = s.sem
  /\ hostStack' = IF s.threw THEN <<>> ELSE below \o own \o Reverse(made)
  /\ UNCHANGED <<forked, vars, early>>

\* Runtime.interrupt() of fiber g, with the cancel action of its boundary
SysInterrupt(g) ==
  LET s0 == WithEnv(g)
      s1 == interrupt(s0)
      id == s0.cSwitch IN
  IF id # 0 /\ s1.switches[id].aborted /\ ~s0.switches[id].aborted
    THEN AbortEffect(s1, s1.switches[id])
    ELSE s1

\* ContextSwitchImpl.resume(r) of switch id of fiber f
SysResume(f, id, r) ==
  LET s0 == WithEnv(f)
      sw == s0.switches[id] IN
  IF ~sw.aborted /\ ~sw.delivered
    THEN [Go([s0 EXCEPT !.switches[id].delivered = TRUE, !.switches[id].armed = FALSE], id, r)
            EXCEPT !.entered = FALSE]
    ELSE [s0 EXCEPT !.switches[id].armed = FALSE]

\* the programs of the fibers
MovedId(f) == [kind |-> "moved", n |-> f]
BodyId(f) == [kind |-> "body", n |-> f]

acquireN(n) == Chain(Eval([t |-> "semAcquire", n |-> n]), [k |-> "flatten"])
releaseN(n) == Eval([t |-> "semRelease", n |-> n])
tryAcquireN(n) == Eval([t |-> "semTryAcquire", n |-> n])
withPermitsN(n, io) == applySecond(acquireN(n), onComplete(io, releaseN(n)))
withPermit(io) == withPermitsN(1, io)

\* an effect whose outcome is recorded: by ChainId(f) when it succeeds, by
\* ErrorId(f) when it fails
Observed(io, f) ==
  ChainError(Chain(io, UserK(ChainId(f), Of(UVal(2)))), UserK(ErrorId(f), Of(UVal(3))))

\* the effects a target fiber runs
Targets ==
  { Of(UVal(1)), Failed("e"), Throw("x"), AsyncAbortable, AsyncPlain,
    OnDone(AsyncAbortable, FinOk(1)), OnDone(AsyncPlain, FinOk(1)),
    OnDone(AsyncAbortable, FinAsync(1)),
    OnInterrupted(AsyncAbortable, Log(HandlerId(1))),
    Critical(AsyncAbortable) }

\* fiber 1 is the target, fibers 2 and 3 observe it
FiberScenarios ==
  { [count |-> 0,
     io |-> <<t, Observed(o, 2), Observed(wait(1), 3)>>] :
       t \in Targets, o \in {join(1), wait(1), interruptAndWait(1)} }

\* the effects of the fibers that use the semaphore: fiber 1 acquires, or
\* holds permits around a body that suspends, on a boundary that can be
\* cancelled or on one that cannot
Holders(f) ==
  { applySecond(acquireN(n), Log(MovedId(f))) : n \in 1..MaxPermits }
    \cup { Observed(withPermitsN(MaxPermits, applySecond(Log(BodyId(f)), AsyncAbortable)), f),
           Observed(withPermit(applySecond(Log(BodyId(f)), AsyncPlain)), f) }

\* fiber 2 acquires, tries to, or holds a permit around a body that succeeds
\* or fails
Acquirers(f) ==
  UNION { { applySecond(acquireN(n), Log(MovedId(f))),
            Observed(tryAcquireN(n), f) } : n \in 1..MaxPermits }
    \cup { Observed(withPermit(Log(BodyId(f))), f),
           Observed(withPermit(applySecond(Log(BodyId(f)), Failed("e"))), f) }

\* fiber 3 releases, or interrupts fiber 1 and then joins fiber 2
Releasers(f) ==
  { releaseN(n) : n \in 1..MaxPermits }
    \cup { Observed(applySecond(interruptAndWait(1), join(2)), f) }

SemScenarios ==
  { [count |-> c, io |-> <<a, b, r>>] :
      c \in 0..MaxPermits, a \in Holders(1), b \in Acquirers(2), r \in Releasers(3) }

\* the fibers' runtimes are constructed
SysInit(scenarios) ==
  /\ RuntimeInit
  /\ \E sc \in scenarios :
       /\ forked = sc.io
       /\ sem = [NewSemaphore(sc.count) EXCEPT !.held = [f \in DOMAIN sc.io |-> 0]]
       /\ runtimes = [f \in DOMAIN sc.io |-> NewRuntime]
       /\ listeners = [f \in DOMAIN sc.io |-> <<>>]
  /\ hostStack = <<>>
  /\ early = NewEarly

FiberInit == SysInit(FiberScenarios)

SemaphoreInit == SysInit(SemScenarios)

\* fork: the runtime of fiber f is started, on a turn of its own
Fork(f) ==
  /\ hostStack = <<>>
  /\ ~runtimes[f].started
  /\ SysCommit(f, [WithEnv(f) EXCEPT !.started = TRUE, !.current = forked[f], !.pc = "loop"], <<>>)

\* the loop on top of the host's stack makes its next iteration
RunStep ==
  /\ hostStack # <<>>
  /\ Top(hostStack).t = "run"
  /\ LET f == Top(hostStack).f IN
     SysCommit(f, IF runtimes[f].pc = "loop" THEN LoopIteration(WithEnv(f))
                                              ELSE InterruptLoopIteration(WithEnv(f)),
               Pop(hostStack))

\* a call of Runtime.interrupt() is made
InterruptStep ==
  /\ hostStack # <<>>
  /\ Top(hostStack).t = "interrupt"
  /\ LET g == Top(hostStack).f IN SysCommit(g, SysInterrupt(g), Pop(hostStack))

\* a listener or Deferred.fill calls contextSwitch.resume
ResumeStep ==
  /\ hostStack # <<>>
  /\ Top(hostStack).t = "resume"
  /\ LET c == Top(hostStack)
         rest == IF Len(c.rs) > 1 THEN <<[c EXCEPT !.rs = Tail(@)]>> ELSE <<>> IN
     SysCommit(c.f, SysResume(c.f, c.id, Head(c.rs)), Pop(hostStack) \o rest)

\* the host calls Runtime.interrupt() of fiber f
HostInterrupt(f) ==
  /\ hostStack = <<>>
  /\ runtimes[f].result = NoResult
  /\ ~runtimes[f].interrupted
  /\ SysCommit(f, SysInterrupt(f), <<>>)

\* the host calls resume(r) through the callback an async step has kept
HostResume(f, id, r) ==
  /\ hostStack = <<>>
  /\ runtimes[f].switches[id].armed
  /\ SysCommit(f, SysResume(f, id, r), <<>>)

FiberNext ==
  \/ \E f \in Fibers : Fork(f)
  \/ RunStep
  \/ InterruptStep
  \/ ResumeStep
  \/ \E f \in Fibers : HostInterrupt(f)
  \/ \E f \in Fibers : \E id \in DOMAIN runtimes[f].switches :
       \E r \in ResumeResults : HostResume(f, id, r)

allVars == <<vars, sysVars, early>>

FiberSpec == FiberInit /\ [][FiberNext]_allVars

SemaphoreSpec == SemaphoreInit /\ [][FiberNext]_allVars

-----------------------------------------------------------------------------
(* The state machine of the earlier Runtime. *)

EarlyInit == Init

\* Runtime.start(io)
EarlyStart ==
  /\ ~early.started
  /\ early.pc = "idle"
  /\ \E io \in EarlyPrograms :
       early' = [early EXCEPT !.program = io, !.started = TRUE, !.current = io, !.pc = "loop"]
  /\ UNCHANGED <<vars, sysVars>>

\* the running loop makes its next iteration
EarlyLoopStep ==
  /\ early.pc = "loop"
  /\ early' = EarlyLoopIteration(early)
  /\ UNCHANGED <<vars, sysVars>>

\* the host calls the callback of the boundary the runtime waits at
EarlyResume(r) ==
  /\ early.pc = "idle"
  /\ early.fuse = "armed"
  /\ early' = EarlyCallback([early EXCEPT !.fuse = "blown"], r)
  /\ UNCHANGED <<vars, sysVars>>

\* the host calls Runtime.halt() while the runtime is not running
EarlyHalt ==
  /\ early.pc = "idle"
  /\ early.result = NoResult
  /\ ~early.halting
  /\ early' = EarlyHalted(early)
  /\ UNCHANGED <<vars, sysVars>>

EarlyNext ==
  \/ EarlyStart
  \/ EarlyLoopStep
  \/ \E r \in ResumeResults : EarlyResume(r)
  \/ EarlyHalt

EarlySpec == EarlyInit /\ [][EarlyNext]_allVars

-----------------------------------------------------------------------------
(* Claims. *)

\* how many times id was logged
Count(id) == Cardinality({i \in DOMAIN log : log[i] = id})

\* C1: once the result cell is set, every finalizer whose Finalize frame was
\* pushed has been executed exactly once, whatever the exit path.
C1_FinalizersRunExactlyOnce ==
  result # NoResult => \A id \in installed : Count(id) = 1


\* the finalizer ids in the order in which they were logged
RECURSIVE FinLevels(_)
FinLevels(l) ==
  IF l = <<>> THEN <<>>
  ELSE IF Head(l).kind = "fin" THEN <<Head(l).n>> \o FinLevels(Tail(l))
  ELSE FinLevels(Tail(l))

\* C2: nested ondone finalizers run innermost first (a finalizer installed at
\* nesting level n wraps those of the levels below n), on the success path, the
\* error-unwind path and the interrupt path alike.
C2_FinalizersInnermostFirst ==
  LET levels == FinLevels(log) IN
  \A i, j \in DOMAIN levels : i < j => levels[i] < levels[j]

\* C2 witness: two nested finalizers have both run during error unwind.
C2_Witness ==
  /\ FinLevels(log) = <<1, 2>>
  /\ result.tag \in {"raise", "abort", "and"}
  /\ ~interrupted

\* two nested finalizers have both run on the success path
C2_ReachedOnSuccess == FinLevels(log) = <<1, 2>> /\ result.tag = "value" /\ ~interrupted

\* two nested finalizers have both run on the interrupt path
C2_ReachedOnInterrupt == FinLevels(log) = <<1, 2>> /\ result = Interrupted

\* an interrupt handler of the program has been executed
HandlerLogged == \E i \in DOMAIN log : log[i].kind = "handler"

\* the run of the program has ended and no interrupt() was ever accepted
EndedUninterrupted == started /\ pc = "idle" /\ result # NoResult /\ ~interrupted

\* C3: the handler of oninterrupted(m, h) is executed only when the runtime
\* unwinds because of interruption; when m ends with a value the value passes
\* through the Interrupt frame unchanged, when m fails the cause is the result,
\* and in both cases h has not run.
C3_HandlerOnlyOnInterrupt ==
  /\ HandlerLogged => unwinding /\ interrupted
  /\ (EndedUninterrupted /\ program = OnInterrupted(Of(UVal(1)), Log(HandlerId(1))))
       => result = Value(UVal(1)) /\ log = <<>>
  /\ (EndedUninterrupted /\ program = OnInterrupted(Failed("e"), Log(HandlerId(1))))
       => result = Raise("e") /\ log = <<>>

\* C3 witness: an Interrupt frame was pushed, m ended with a typed failure and
\* the frame was discarded without running the handler.
C3_Witness ==
  /\ program = OnInterrupted(Failed("e"), Log(HandlerId(1)))
  /\ handlers = {HandlerId(1)}
  /\ result = Raise("e")
  /\ ~HandlerLogged

\* an Interrupt frame was pushed and m ended with a value
C3_ReachedOnValue ==
  /\ program = OnInterrupted(Of(UVal(1)), Log(HandlerId(1)))
  /\ handlers = {HandlerId(1)}
  /\ result = Value(UVal(1))

\* an interrupt handler has run during interrupt unwinding
C3_ReachedOnInterrupt == HandlerLogged /\ result = Interrupted

\* C4: once interrupt unwinding has begun, the result cell holds nothing but
\* Interrupted, whatever the finalizers and interrupt handlers do.
C4_InterruptedIsTerminal ==
  unwinding => result \in {NoResult, Interrupted}

\* every variable but the interrupted flag
varsButInterrupted ==
  <<program, started, callFrames, criticalSections, suspended, cSwitch, result,
    switches, current, pc, log, calls, installed, handlers, unwinding, history, fatal>>

\* C5: while criticalSections > 0 an interrupt() only sets the flag: interrupt
\* unwinding never starts at a depth above 0, cs.interrupt() is never called
\* at a depth above 0, and critical(m) suspended on its async step m is not
\* unwound before that step has been resumed.
C5_CriticalMasksInterrupt ==
  [][ /\ (~unwinding /\ unwinding') => criticalSections' = 0
      /\ (\E i \in DOMAIN switches : ~switches[i].aborted /\ switches'[i].aborted)
           => criticalSections = 0
      /\ (pc = "idle" /\ criticalSections > 0 /\ ~interrupted /\ interrupted')
           => pc' = "idle" /\ UNCHANGED varsButInterrupted
      /\ (unwinding' /\ Len(switches') >= 1
            /\ program' \in {Critical(AsyncPlain), Critical(AsyncAbortable)})
           => switches'[1].delivered
    ]_vars

\* C5 witness: interrupt() was called while the fiber is suspended on an
\* interruptible boundary inside critical(m); only the flag is set.
C5_Witness ==
  /\ program = Critical(AsyncAbortable)
  /\ pc = "idle" /\ suspended /\ cSwitch # 0
  /\ criticalSections > 0
  /\ interrupted
  /\ isInterruptible(switches[cSwitch]) /\ ~switches[cSwitch].aborted
  /\ ~unwinding

\* critical(m) was interrupted while suspended, m was then resumed, and
\* interrupt unwinding followed
C5_ReachedUnwindAfter ==
  /\ program = Critical(AsyncAbortable)
  /\ switches # <<>> /\ switches[1].delivered
  /\ result = Interrupted

\* C6: a latched interrupt is honored: the runtime never rests suspended on an
\* interruptible boundary with interrupted = TRUE and criticalSections = 0
\* without having entered interrupt unwinding.
C6_LatchedInterruptHonored ==
  ~( /\ pc = "idle" /\ result = NoResult /\ ~unwinding
     /\ interrupted /\ criticalSections = 0
     /\ suspended /\ cSwitch # 0
     /\ isInterruptible(switches[cSwitch])
     /\ ~switches[cSwitch].delivered )

\* the continuations the programs give to chain at nesting level n
ChainKs(n) == { UserK(ChainId(n), Of(UVal(2))), UserK(ChainId(n), AsyncAbortable) }

IsCause(v) == v.tag \in {"raise", "abort", "and"}

\* C7: chain(failed(e), k) on a fresh runtime ends with Raise(e) as soon as
\* start returns, and k is never invoked; no chain continuation is ever
\* applied to a cause during error unwind.
C7_ChainFailedShortCircuits ==
  /\ \A k \in ChainKs(1) :
       program = Chain(Failed("e"), k) =>
         /\ calls = <<>>
         /\ (pc = "idle" /\ ~interrupted) => result = Raise("e")
  /\ \A i \in DOMAIN calls : calls[i][1].kind = "chain" => ~IsCause(calls[i][2])

\* C7 witness: chain(failed(e), k) has run to its end.
C7_Witness ==
  /\ program = Chain(Failed("e"), UserK(ChainId(1), Of(UVal(2))))
  /\ pc = "idle"
  /\ result = Raise("e")
  /\ calls = <<>>

\* the continuation the programs give to chainerror at nesting level n
ErrorK(n) == UserK(ErrorId(n), Of(UVal(3)))

\* the run has returned to the host and no interrupt() was ever accepted
IdleUninterrupted == started /\ pc = "idle" /\ ~interrupted

\* C8: chainerror(failed(e), k) invokes k once with Raise(e) and continues
\* with what k returns; with a finalizer installed between the failure and
\* the Error frame, k is invoked only after the finalizer has run, with the
\* cause the finalizers re-raise; chainerror(of(a), k) yields a and never
\* invokes k.
C8_ChainErrorRecovers ==
  /\ program = ChainError(Failed("e"), ErrorK(1)) =>
       /\ calls \in {<<>>, << <<ErrorId(1), Raise("e")>> >>}
       /\ IdleUninterrupted =>
            calls = << <<ErrorId(1), Raise("e")>> >> /\ result = Value(UVal(3))
  /\ program = ChainError(Of(UVal(1)), ErrorK(1)) =>
       /\ calls = <<>>
       /\ IdleUninterrupted => result = Value(UVal(1))
  /\ program = ChainError(OnDone(Failed("e"), FinOk(1)), ErrorK(2)) =>
       /\ calls # <<>> => log = <<FinId(1)>>
       /\ IdleUninterrupted =>
            calls = << <<ErrorId(2), Raise("e")>> >> /\ result = Value(UVal(3))
  /\ program = ChainError(OnDone(Failed("e"), FinDefect(1)), ErrorK(2)) =>
       /\ calls # <<>> => log = <<FinId(1)>>
       /\ IdleUninterrupted =>
            /\ calls = << <<ErrorId(2), And(Raise("e"), Abort(FinId(1)))>> >>
            /\ result = Value(UVal(3))
  /\ program = ChainError(OnDone(Failed("e"), FinAsync(1)), ErrorK(2)) =>
       /\ calls # <<>> => log = <<FinId(1)>> /\ switches[1].delivered
       /\ (IdleUninterrupted /\ result # NoResult) =>
            Len(calls) = 1 /\ calls[1][1] = ErrorId(2) /\ result = Value(UVal(3))
  /\ \A i \in DOMAIN calls : calls[i][1].kind = "error" => IsCause(calls[i][2])

\* C8 witness: the Error frame was invoked with the cause after the finalizer
\* installed below it had run.
C8_Witness ==
  /\ program = ChainError(OnDone(Failed("e"), FinOk(1)), ErrorK(2))
  /\ log = <<FinId(1)>>
  /\ calls = << <<ErrorId(2), Raise("e")>> >>
  /\ result = Value(UVal(3))

\* chainerror(of(a), k) has ended with a
C8_ReachedOnValue ==
  program = ChainError(Of(UVal(1)), ErrorK(1)) /\ result = Value(UVal(1)) /\ calls = <<>>

\* io is a failing body under nested ondone finalizers only
RECURSIVE IsFailingNest(_)
IsFailingNest(io) ==
  \/ io \in {Failed("e"), Throw("x"), AsyncThrow("x")}
  \/ io.tag = "ondone" /\ IsFailingNest(io.first)

\* the causes the claim allows as the outcome of a failing nest: the cause of
\* the body, extended on the right by the cause of each defecting finalizer,
\* innermost first (a suspending finalizer defects when it is resumed with a
\* cause and succeeds when it is resumed with a value)
RECURSIVE ExpectedCauses(_)
ExpectedCauses(io) ==
  CASE io = Failed("e") -> {Raise("e")}
    [] io \in {Throw("x"), AsyncThrow("x")} -> {Abort("x")}
    [] io.tag = "ondone" ->
         LET bases == ExpectedCauses(io.first)
             n == CHOOSE id \in Labels(io.always) : TRUE IN
         CASE io.always = FinOk(n.n) -> bases
           [] io.always = FinDefect(n.n) -> {And(b, Abort(n)) : b \in bases}
           [] io.always = FinAsync(n.n) ->
                bases \cup {And(b, r) : b \in bases, r \in {x \in ResumeResults : IsCause(x)}}

\* C9: during error unwind a finalizer's defect never replaces the in-flight
\* cause: the run ends with the body's cause, extended on the right with And
\* by the cause of each finalizer that defected, in pop order; a finalizer
\* that succeeds leaves the cause unchanged.
C9_FinalizerCauseAppended ==
  (IdleUninterrupted /\ result # NoResult /\ IsFailingNest(program))
    => result \in ExpectedCauses(program)

\* C9 witness: two finalizers defected in turn during one error unwind.
C9_Witness ==
  /\ program = OnDone(OnDone(Failed("e"), FinDefect(1)), FinDefect(2))
  /\ result = And(And(Raise("e"), Abort(FinId(1))), Abort(FinId(2)))

\* a succeeding finalizer left the cause unchanged, a later one extended it
C9_ReachedMixed ==
  /\ program = OnDone(OnDone(Failed("e"), FinOk(1)), FinDefect(2))
  /\ result = And(Raise("e"), Abort(FinId(2)))

\* the running loop is about to step a suspend whose thunk throws, or an
\* async whose register function throws
AboutToThrow ==
  /\ pc \in {"loop", "interruptLoop"}
  /\ \/ current.tag = "suspend" /\ current.thunk.t = "throw"
     \/ current.tag = "async" /\ current.start.r = "throw"

ThrownValue == IF current.tag = "suspend" THEN current.thunk.x ELSE current.start.x

\* the bodies of the programs that throw a host exception
ThrowingBodies == {Throw("x"), AsyncThrow("x")}

\* C10: a host exception thrown by a suspend thunk or by the register function
\* of an async step does not leave the step loop: the loop goes on with
\* raised(Abort(exception)) (or, when an interrupt is pending at depth 0, with
\* interrupt unwinding), and the Abort follows the error-unwind path: it ends
\* the run as its result, finalizers run before that, an Error frame catches it.
C10_HostExceptionBecomesAbort ==
  [][ /\ AboutToThrow =>
           /\ fatal' = fatal
           /\ current' = Raised(Abort(ThrownValue)) \/ (unwinding' /\ interrupted)
      /\ \A b \in ThrowingBodies :
           /\ (program' = b /\ IdleUninterrupted') => result' = Abort("x")
           /\ (program' = OnDone(b, FinOk(1)) /\ IdleUninterrupted')
                => result' = Abort("x") /\ log' = <<FinId(1)>>
           /\ (program' = ChainError(b, ErrorK(1)) /\ IdleUninterrupted')
                => calls' = << <<ErrorId(1), Abort("x")>> >> /\ result' = Value(UVal(3))
    ]_vars

\* C10 witness: the register function of an async step threw under an ondone;
\* the finalizer ran and the run ended with the Abort.
C10_Witness ==
  /\ program = OnDone(AsyncThrow("x"), FinOk(1))
  /\ log = <<FinId(1)>>
  /\ result = Abort("x")
  /\ ~fatal

\* a thrown thunk was caught by an Error frame
C10_ReachedCaught ==
  /\ program = ChainError(Throw("x"), ErrorK(1))
  /\ calls = << <<ErrorId(1), Abort("x")>> >>
  /\ result = Value(UVal(3))

-----------------------------------------------------------------------------
(* Claims about fibers (FiberSpec) and the semaphore (SemaphoreSpec). *)

\* no programmer-error exception reaches the host in these scenarios
NoFiberFatal == \A f \in Fibers : ~runtimes[f].fatal

\* how Fiber.join is to resume the joiner f for the target's result r
JoinOutcome(f, r) ==
  CASE r.tag = "value" -> <<ChainId(f), r.value>>
    [] r.tag = "interrupted" -> <<ErrorId(f), JoinAbort>>
    [] OTHER -> <<ErrorId(f), r>>

\* C11: a fiber that joins fiber 1 is resumed at most once, never before the
\* result cell of fiber 1 is set, with the target's value (success), with the
\* target's cause (failure) or with the Abort "Join on interrupted fiber"
\* (target Interrupted); and once the result is set and the host is idle, a
\* started joiner that was not interrupted itself has been resumed.
C11_JoinResumesOnce ==
  \A f \in Fibers :
    forked[f] = Observed(join(1), f) =>
      LET c == runtimes[f].calls
          r == runtimes[1].result IN
      /\ Len(c) <= 1
      /\ c # <<>> => r # NoResult /\ c[1] = JoinOutcome(f, r)
      /\ (hostStack = <<>> /\ r # NoResult /\ runtimes[f].started
            /\ ~runtimes[f].interrupted) => c # <<>>

\* C11 witness: the target was interrupted and the joiner got the Abort
C11_Witness ==
  /\ forked[2] = Observed(join(1), 2)
  /\ runtimes[1].result = Interrupted
  /\ runtimes[2].calls = << <<ErrorId(2), JoinAbort>> >>

\* the joiner got the value of a target that it found completed
C11_ReachedValue ==
  /\ forked[2] = Observed(join(1), 2)
  /\ forked[1] = Of(UVal(1))
  /\ runtimes[2].calls = << <<ChainId(2), UVal(1)>> >>

\* the joiner got the cause of a target that failed while it was listening
C11_ReachedCause ==
  /\ forked[2] = Observed(join(1), 2)
  /\ forked[1] = AsyncPlain
  /\ runtimes[2].calls = << <<ErrorId(2), Raise("r")>> >>

\* C12: a fiber that waits for fiber 1 never fails because of the target: it
\* is resumed at most once, only after the target's result cell is set, with
\* a success value that is the target's outcome (Value, Raise, Abort or
\* Interrupted); its error continuation never runs and its own result is
\* never a cause; once the result is set and the host is idle, a started
\* waiter that was not interrupted itself has been resumed.
C12_WaitNeverFails ==
  \A f \in Fibers :
    forked[f] = Observed(wait(1), f) =>
      LET c == runtimes[f].calls
          r == runtimes[1].result IN
      /\ Len(c) <= 1
      /\ c # <<>> => r # NoResult /\ c[1] = <<ChainId(f), r>>
      /\ runtimes[f].result \in {NoResult, Value(UVal(2)), Interrupted}
      /\ (hostStack = <<>> /\ r # NoResult /\ runtimes[f].started
            /\ ~runtimes[f].interrupted) => c # <<>>

\* C12 witness: the target failed and the waiter got the cause as a value
C12_Witness ==
  /\ forked[1] = Failed("e")
  /\ runtimes[3].calls = << <<ChainId(3), Raise("e")>> >>
  /\ runtimes[3].result = Value(UVal(2))

\* the waiter got Interrupted as a value
C12_ReachedInterrupted ==
  /\ forked[2] = Observed(wait(1), 2)
  /\ runtimes[2].calls = << <<ChainId(2), Interrupted>> >>

\* the waiter got the defect of a target whose thunk threw
C12_ReachedAbort ==
  /\ forked[1] = Throw("x")
  /\ runtimes[3].calls = << <<ChainId(3), Abort("x")>> >>

\* how many times fiber f logged id
CountOf(f, id) == Cardinality({i \in DOMAIN runtimes[f].log : runtimes[f].log[i] = id})

\* the caller's interruptAndWait(1) has completed
WaitCompleted(f) == runtimes[f].calls # <<>>

\* interruptAndWait completes only after the target's result cell is set
C13_AfterResultSet ==
  \A f \in Fibers :
    (forked[f] = Observed(interruptAndWait(1), f) /\ WaitCompleted(f))
      => /\ runtimes[1].result # NoResult
         /\ runtimes[f].calls[1] = <<ChainId(f), runtimes[1].result>>

\* C13: when interruptAndWait(1) has completed in the calling fiber, the result
\* cell of fiber 1 is set and the cleanup of fiber 1 is over: every finalizer
\* whose Finalize frame was pushed has run, and so has every interrupt handler
\* whose Interrupt frame was pushed when the outcome is Interrupted.
C13_InterruptAndWaitAfterCleanup ==
  \A f \in Fibers :
    (forked[f] = Observed(interruptAndWait(1), f) /\ WaitCompleted(f))
      => /\ runtimes[1].result # NoResult
         /\ \A id \in runtimes[1].installed : CountOf(1, id) = 1
         /\ runtimes[1].result = Interrupted =>
              \A id \in runtimes[1].handlers : CountOf(1, id) = 1

\* the deferreds of the waiters in a queue
QueuedIn(q) == {q[i].d : i \in DOMAIN q}

\* the thunk that the loop on top of the host's stack is about to run
RunningThunk ==
  IF hostStack # <<>> /\ Top(hostStack).t = "run"
       /\ runtimes[Top(hostStack).f].current.tag = "suspend"
    THEN runtimes[Top(hostStack).f].current.thunk
    ELSE [t |-> "none"]

\* releaseN serves the queue from the head only: a waiter that stays queued
\* keeps every waiter behind it queued
ReleaseKeepsOrder ==
  [][RunningThunk.t = "semRelease" =>
       \A i \in DOMAIN sem.waiters :
         sem.waiters[i].d \in QueuedIn(sem'.waiters) =>
           \A j \in DOMAIN sem.waiters : j > i => sem.waiters[j].d \in QueuedIn(sem'.waiters)
    ]_allVars

\* C14: waiters are served strictly in FIFO order: while a waiter W1 stays
\* queued, a releaseN wakes no waiter behind it, and while the head waiter is
\* queued and not fully satisfiable, an acquireN of a later fiber obtains no
\* permits.
C14_StrictFIFO ==
  [][/\ RunningThunk.t = "semRelease" =>
          \A i \in DOMAIN sem.waiters :
            sem.waiters[i].d \in QueuedIn(sem'.waiters) =>
              \A j \in DOMAIN sem.waiters :
                j > i => sem.waiters[j].d \in QueuedIn(sem'.waiters)
     /\ (RunningThunk.t = "semAcquire" /\ sem.waiters # <<>>
           /\ Head(sem.waiters).n > sem.count) => sem'.count = sem.count
    ]_allVars

\* fiber f is blocked in an acquireN: its waiter is queued and awaited
BlockedWaiters(f) == {l \in sem.listening : l.f = f /\ l.d \in QueuedIn(sem.waiters)}

\* fiber f runs acquireN(n) and then records that it moved on
IsAcquirer(f) == \E n \in 1..MaxPermits : forked[f] = applySecond(acquireN(n), Log(MovedId(f)))

\* C15: a fiber blocked in acquireN(n) with count < n leaves count as it is
\* when it starts waiting, and when it is interrupted its waiter leaves the
\* queue, count stays as it is, and the effect sequenced after the acquire
\* never runs.
C15_InterruptedWaiterLeavesCount ==
  [][\A f \in Fibers :
       /\ (BlockedWaiters(f) = {} /\ BlockedWaiters(f)' # {}) => sem'.count = sem.count
       /\ (BlockedWaiters(f) # {} /\ ~runtimes[f].interrupted /\ runtimes'[f].interrupted) =>
            /\ sem'.count = sem.count
            /\ \A l \in BlockedWaiters(f) : l.d \notin QueuedIn(sem'.waiters)
            /\ runtimes'[f].result = Interrupted
       /\ (IsAcquirer(f) /\ runtimes'[f].result = Interrupted) =>
            CountOf(f, MovedId(f))' = 0
    ]_allVars

\* C15 witness (the test): Semaphore(1), fiber 1 blocked in acquireN(2) was
\* interrupted by fiber 3's interruptAndWait: moved is false and count is 1
C15_Witness ==
  /\ forked[1] = applySecond(acquireN(2), Log(MovedId(1)))
  /\ forked[3] = Observed(applySecond(interruptAndWait(1), join(2)), 3)
  /\ runtimes[1].switches # <<>>
  /\ runtimes[1].result = Interrupted
  /\ runtimes[1].log = <<>>
  /\ sem.count = 1
  /\ sem.waiters = <<>>

\* C16: interrupting a blocked fiber leaves no acquireN blocked behind the
\* removed waiter although its request fits the available count: whenever the
\* host is idle, the waiter at the head of the queue asks for more than count.
C16_NoFittingWaiterStaysBlocked ==
  (hostStack = <<>> /\ sem.waiters # <<>>) => Head(sem.waiters).n > sem.count

\* the scenario of the test: fiber 2 acquired and moved on, fiber 1 was
\* interrupted before it moved, fiber 3 saw both through interruptAndWait and join
C16_ReachedTest ==
  /\ forked[1] = applySecond(acquireN(2), Log(MovedId(1)))
  /\ forked[2] = applySecond(acquireN(1), Log(MovedId(2)))
  /\ runtimes[3].calls = << <<ChainId(3), Undefined>> >>
  /\ runtimes[1].result = Interrupted /\ runtimes[1].log = <<>>
  /\ runtimes[2].log = <<MovedId(2)>>
  /\ sem.count = 0

\* fiber f runs withPermitsN(n, m), its outcome recorded
WithPermitsBodies(f) ==
  { Log(BodyId(f)), applySecond(Log(BodyId(f)), Failed("e")),
    applySecond(Log(BodyId(f)), AsyncAbortable), applySecond(Log(BodyId(f)), AsyncPlain) }

IsWithPermits(f) ==
  \E n \in 1..MaxPermits : \E m \in WithPermitsBodies(f) :
    forked[f] = Observed(withPermitsN(n, m), f)

\* C17: withPermitsN(n, m) returns exactly the permits it took: when the fiber
\* that runs it has terminated (m succeeded, m failed, or the fiber was
\* interrupted while blocked in the acquire or while running m) and the host is
\* idle, the fiber holds no permit; and when m = log succeeded, the value is m's.
C17_WithPermitsReturnsAll ==
  \A f \in Fibers :
    (IsWithPermits(f) /\ runtimes[f].result # NoResult /\ hostStack = <<>>) =>
      /\ sem.held[f] = 0
      /\ (forked[f] = Observed(withPermit(Log(BodyId(f))), f)
            /\ runtimes[f].result # Interrupted) =>
           runtimes[f].calls = << <<ChainId(f), Undefined>> >>

\* the permits come back on success, on failure, and after an interrupt
\* while the body was suspended on a boundary that can be cancelled
C17_ReachedSuccess ==
  /\ forked[2] = Observed(withPermit(Log(BodyId(2))), 2)
  /\ runtimes[2].result = Value(UVal(2)) /\ runtimes[2].log = <<BodyId(2)>>
  /\ sem.held[2] = 0 /\ hostStack = <<>>

C17_ReachedInterruptedInBody ==
  /\ forked[1] = Observed(withPermitsN(MaxPermits, applySecond(Log(BodyId(1)), AsyncAbortable)), 1)
  /\ runtimes[1].result = Interrupted /\ runtimes[1].log = <<BodyId(1)>>
  /\ sem.held[1] = 0 /\ hostStack = <<>>

\* fiber f runs tryAcquireN(n), its outcome recorded
IsTrier(f) == \E n \in 1..MaxPermits : forked[f] = Observed(tryAcquireN(n), f)

\* C18: tryAcquireN(n) never suspends and never enqueues a waiter; the step
\* that runs it yields true and takes n permits when count >= n, and yields
\* false leaving count unchanged when count < n.
C18_TryAcquireNeverBlocks ==
  [][/\ RunningThunk.t = "semTryAcquire" =>
          LET f == Top(hostStack).f
              n == RunningThunk.n IN
          /\ sem'.waiters = sem.waiters
          /\ IF sem.count >= n
               THEN /\ sem'.count = sem.count - n
                    /\ runtimes'[f].current = Of(BoolVal(TRUE))
               ELSE /\ sem'.count = sem.count
                    /\ runtimes'[f].current = Of(BoolVal(FALSE))
     /\ \A f \in Fibers :
          IsTrier(f) => /\ runtimes'[f].switches = <<>>
                        /\ \A i \in DOMAIN sem'.waiters : sem'.waiters[i].f # f
    ]_allVars

\* C18 witness: tryAcquireN(2) on a count of 1 gave false and left count at 1
C18_Witness ==
  /\ forked[2] = Observed(tryAcquireN(2), 2)
  /\ runtimes[2].calls = << <<ChainId(2), BoolVal(FALSE)>> >>
  /\ runtimes[2].result = Value(UVal(2))
  /\ \A f \in {1, 3} : ~runtimes[f].started
  /\ sem.count = 1

\* tryAcquireN(1) on a count of 2 gave true and left count at 1 (the test)
C18_ReachedTrue ==
  /\ forked[2] = Observed(tryAcquireN(1), 2)
  /\ runtimes[2].calls = << <<ChainId(2), BoolVal(TRUE)>> >>
  /\ \A f \in {1, 3} : ~runtimes[f].started
  /\ sem.count = 1

\* C19: acquireN(n) on a count of at least n takes exactly n permits in the
\* step that runs it, enqueues no waiter and installs no async boundary; a
\* fiber that runs acquireN(n) >> moved and has never suspended has, once the
\* host is idle again, completed and moved on (unless it was interrupted).
C19_AcquireWithinCountImmediate ==
  [][/\ (RunningThunk.t = "semAcquire" /\ sem.count >= RunningThunk.n) =>
          LET f == Top(hostStack).f IN
          /\ sem'.count = sem.count - RunningThunk.n
          /\ sem'.waiters = sem.waiters
          /\ runtimes'[f].switches = runtimes[f].switches
          /\ runtimes'[f].current = Of(IOVal(Of(Undefined)))
     /\ \A f \in Fibers :
          (IsAcquirer(f) /\ runtimes'[f].started /\ ~runtimes'[f].interrupted
             /\ runtimes'[f].switches = <<>> /\ hostStack' = <<>>) =>
            /\ runtimes'[f].result = Value(Undefined)
            /\ runtimes'[f].log = <<MovedId(f)>>
    ]_allVars

\* C19 witness: acquireN(2) on a count of 2 completed at once and left 0
C19_Witness ==
  /\ forked[1] = applySecond(acquireN(2), Log(MovedId(1)))
  /\ runtimes[1].result = Value(Undefined)
  /\ runtimes[1].switches = <<>>
  /\ \A f \in {2, 3} : ~runtimes[f].started
  /\ sem.count = 0

\* fiber f runs withPermit(body) where body records that it ran
IsBlockingUser(f) == forked[f] = Observed(withPermit(Log(BodyId(f))), f)

\* C20: a fiber that runs withPermit(body) and found no permit does not start
\* body while it is queued; it leaves the queue only through a releaseN (or its
\* own interruption); a releaseN that makes the head waiter fully satisfiable
\* takes it off the queue and resumes it; and whenever the host is idle again
\* the fiber is still queued or has run body once and terminated.
C20_BlockedUntilRelease ==
  [][/\ \A f \in Fibers :
          IsBlockingUser(f) =>
            /\ BlockedWaiters(f)' # {} => CountOf(f, BodyId(f))' = 0
            /\ (BlockedWaiters(f) # {} /\ BlockedWaiters(f)' = {}) =>
                 RunningThunk.t = "semRelease" \/ runtimes'[f].interrupted
            /\ (hostStack' = <<>> /\ runtimes'[f].started /\ ~runtimes'[f].interrupted
                  /\ BlockedWaiters(f)' = {}) =>
                 /\ runtimes'[f].result = Value(UVal(2))
                 /\ runtimes'[f].log = <<BodyId(f)>>
                 /\ sem'.held[f] = 0
     /\ (RunningThunk.t = "semRelease" /\ sem.waiters # <<>>
           /\ Head(sem.waiters).n <= sem.count + RunningThunk.n) =>
          LET w == Head(sem.waiters) IN
          /\ w.d \notin QueuedIn(sem'.waiters)
          /\ \E l \in sem.listening :
               /\ l.d = w.d
               /\ Top(hostStack') = ResumeCalls(l.f, l.id, <<Value(Undefined)>>)
    ]_allVars

\* C20 witness (the test): the fiber was blocked on 0 permits, fiber 3
\* released one, the fiber ran body, terminated and gave the permit back
C20_Witness ==
  /\ IsBlockingUser(2)
  /\ forked[3] = releaseN(1)
  /\ ~runtimes[1].started
  /\ runtimes[2].switches # <<>>
  /\ runtimes[2].log = <<BodyId(2)>>
  /\ runtimes[2].result = Value(UVal(2))
  /\ runtimes[3].result = Value(Undefined)
  /\ sem.count = 1
  /\ hostStack = <<>>

\* before the release the fiber is queued and body has not run
C20_ReachedBlocked ==
  /\ IsBlockingUser(2)
  /\ BlockedWaiters(2) # {}
  /\ runtimes[2].log = <<>>
  /\ ~runtimes[3].started
  /\ hostStack = <<>>

-----------------------------------------------------------------------------
(* Claims C21..C28. *)

\* what a fiber does while it holds the mutex: it logs that it is in, then
\* does m
MutexBody(f, m) == applySecond(Log(BodyId(f)), m)

\* Mutex: a semaphore of capacity 1; every fiber uses it through withPermit
\* only.  The bodies succeed, fail, throw, suspend on a boundary that can be
\* cancelled or on one that cannot, or interrupt fiber 1
MutexScenarios ==
  { [count |-> 1,
     io |-> <<Observed(withPermit(MutexBody(1, a)), 1),
              Observed(withPermit(MutexBody(2, b)), 2),
              Observed(withPermit(MutexBody(3, c)), 3)>>] :
       a \in {Of(UVal(1)), Throw("x"), AsyncAbortable, AsyncPlain},
       b \in {Of(UVal(1)), Failed("e"), AsyncAbortable},
       c \in {AsyncAbortable, fiberInterrupt(1)} }

MutexInit == SysInit(MutexScenarios)

MutexSpec == MutexInit /\ [][FiberNext]_allVars

\* fiber f is executing the body of withPermit: it has entered the body and
\* the Finalize frame of the body's onComplete is still on its stack
InBody(f) ==
  /\ CountOf(f, BodyId(f)) > 0
  /\ \E i \in DOMAIN runtimes[f].callFrames :
       runtimes[f].callFrames[i] = FinalizeFrame(Wrapped(releaseN(1)))

\* at most one fiber is in the body of withPermit, and the permits add up
C21_MutualExclusion ==
  /\ Cardinality({f \in Fibers : InBody(f)}) <= 1
  /\ \A f \in Fibers : InBody(f) => sem.held[f] = 1
  /\ \A f \in Fibers : sem.held[f] \in {0, 1}
  /\ sem.count + sem.held[1] + sem.held[2] + sem.held[3] = 1

\* C21: with a Mutex used only through withPermit, at most one fiber is in the
\* body of withPermit at any time, and the permit is given back on every exit:
\* a fiber that has terminated holds no permit, so that when the host is idle
\* and no fiber is in the body, no fiber is left waiting for the mutex.
C21_MutexExclusiveAndReleased ==
  /\ Cardinality({f \in Fibers : InBody(f)}) <= 1
  /\ \A f \in Fibers :
       (runtimes[f].result # NoResult /\ hostStack = <<>>) => sem.held[f] = 0
  /\ (hostStack = <<>> /\ \A f \in Fibers : ~InBody(f)) => sem.waiters = <<>>

\* a fiber waits for the mutex while another one is suspended in the body
C21_ReachedContended ==
  /\ InBody(1) /\ runtimes[1].suspended
  /\ BlockedWaiters(2) # {} /\ BlockedWaiters(3) # {}
  /\ hostStack = <<>>

\* the holder was interrupted in the body, the permit went to a waiter
C21_ReachedHandOver ==
  /\ runtimes[1].result = Interrupted /\ CountOf(1, BodyId(1)) = 1
  /\ InBody(2) /\ runtimes[2].suspended /\ runtimes[2].switches # <<>>
  /\ Len(runtimes[2].switches) = 2

\* this step delivers a result through switch id: the host calls resume
\* through the kept callback, or the timer of resumeLater fires
Delivers(id) ==
  \/ switches[id].armed /\ ~switches'[id].armed
  \/ switches[id].later # NoResult /\ switches'[id].later = NoResult

\* a result delivered through a kept callback after the boundary was cancelled
\* by Runtime.interrupt is dropped by ContextSwitchImpl.resume
ResumeAfterAbortDropped ==
  [][\A id \in DOMAIN switches :
       (unwinding /\ switches[id].aborted /\ switches[id].armed /\ ~switches'[id].armed) =>
         UNCHANGED <<callFrames, calls, current, pc, result, history, log,
                     criticalSections, suspended, cSwitch, fatal>>
    ]_vars

\* C22: a result delivered through a context switch of the normal loop after
\* interruptFinalize has begun is dropped: no call frame is popped or applied,
\* the normal loop is not restarted, the result cell is left as it is and no
\* exception reaches the host.
C22_LateResultDropped ==
  [][\A id \in DOMAIN switches :
       (unwinding /\ switches[id].mode = "loop" /\ Delivers(id)) =>
         /\ UNCHANGED <<callFrames, calls, result, history>>
         /\ pc' # "loop"
         /\ fatal' = fatal
    ]_vars

\* a resume through the kept callback was dropped after the interrupt
C22_ReachedDroppedResume ==
  /\ unwinding /\ result = Interrupted
  /\ switches # <<>> /\ switches[1].aborted /\ ~switches[1].armed /\ ~switches[1].delivered
  /\ program = AsyncAbortable

\* the timer of a resumeLater is still queued while the finalizer started by
\* the interrupt is suspended on its own boundary
C22_ReachedLateTimer ==
  /\ unwinding /\ result = NoResult /\ pc = "idle"
  /\ Len(switches) = 2 /\ switches[1].aborted /\ switches[1].later # NoResult
  /\ switches[2].mode = "interruptLoop" /\ switches[2].armed

\* setAbort was called on the switch, and neither resume / resumeLater nor
\* interrupt has fired on it
AbortPending(cs) == cs.abort /\ ~cs.delivered /\ ~cs.aborted

\* Runtime.interrupt() never calls the cancel action of a boundary whose result
\* was delivered with resume(): go() has cleared cSwitch by then
C23_NotAfterResume ==
  [][\A id \in DOMAIN switches :
       (~switches[id].aborted /\ switches'[id].aborted) =>
         (switches[id].delivered => switches[id].later # NoResult)
    ]_vars

\* C23: isInterruptible() of a context switch is true exactly when setAbort
\* has been called and neither resume / resumeLater nor interrupt has fired on
\* it; so Runtime.interrupt() never calls the cancel action of a context
\* switch whose result has been delivered or scheduled.
C23_InterruptibleIffPending ==
  [][\A id \in DOMAIN switches :
       /\ isInterruptible(switches[id]) <=> AbortPending(switches[id])
       /\ (~switches[id].aborted /\ switches'[id].aborted) => ~switches[id].delivered
    ]_vars

\* the cancel action of a boundary was called after resumeLater had scheduled
\* its result
C23_ReachedCancelAfterSchedule ==
  \E id \in DOMAIN switches :
    switches[id].aborted /\ switches[id].delivered /\ switches[id].later # NoResult

\* the runtime has terminated and is at rest: it is outside every critical
\* region and every finalizer wrapper
AtRest == result # NoResult /\ pc = "idle" /\ current = NoIO /\ ~fatal

\* the critical-section depth never goes below 0
C24_NeverNegative == criticalSections >= 0

\* C24: the critical-section depth is balanced: criticalSections is never
\* negative, and once every critical(m) region and every finalizer or
\* interrupt-handler wrapper has exited, by success or by a defect, the
\* counter is back at 0.
C24_CriticalBalanced ==
  /\ criticalSections >= 0
  /\ AtRest => criticalSections = 0

\* a critical region whose body failed has left the counter at 0
C24_ReachedCriticalFailed ==
  /\ program = Critical(Failed("e"))
  /\ AtRest /\ result = Raise("e") /\ criticalSections = 0

\* the loop has been entered (by start, or by a result delivered at an async
\* boundary) with the interrupted flag set and no critical section open
Reentered == pc = "loop" /\ interrupted /\ criticalSections = 0 /\ ~unwinding

\* on such an entry the do-while still runs one step of the next effect
C25_OneStepRuns ==
  [][Reentered =>
       LET s1 == step(State, "loop") IN
       /\ log' = s1.log
       /\ criticalSections' = s1.criticalSections
       /\ switches' = s1.switches
       /\ calls' = s1.calls
    ]_vars

\* an effect critical(m) met on such an entry gets into its critical section
C25_CriticalEntered ==
  [][(Reentered /\ current.tag = "critical") => ~unwinding']_vars

\* C25: when the loop is entered with the interrupted flag set and
\* criticalSections = 0, exactly one step of the next effect runs, and after
\* that step the runtime goes to interrupt unwinding unless the step completed
\* the fiber or raised the depth above 0.
C25_OneStepThenUnwind ==
  [][Reentered =>
       LET s1 == step(State, "loop") IN
       /\ log' = s1.log
       /\ criticalSections' = s1.criticalSections
       /\ switches' = s1.switches
       /\ calls' = s1.calls
       /\ (unwinding' \/ result' # NoResult \/ criticalSections' > 0)
    ]_vars

\* the one step after a late delivery ran, and the runtime went to unwinding
C25_ReachedUnwindAfterStep ==
  /\ program = Chain(Chain(AsyncLater(Value(UVal(1)), FALSE), UserK(ChainId(1), Of(UVal(2)))),
                     UserK(ChainId(2), Of(UVal(2))))
  /\ calls = << <<ChainId(1), UVal(1)>>, <<ChainId(2), UVal(2)>> >>
  /\ unwinding /\ result = Interrupted

\* fiber f observes fiber 1 through join, wait or interruptAndWait
IsObserver(f) ==
  \E o \in {join(1), wait(1), interruptAndWait(1)} : forked[f] = Observed(o, f)

\* the listeners fiber f has in the result cell of fiber g
ListenersOf(f, g) == SelectSeq(listeners[g], LAMBDA l : l.f = f)

\* fiber f was interrupted while it was suspended in join or wait on fiber 1
InterruptedWaiting(f) ==
  /\ IsObserver(f)
  /\ runtimes[f].result = Interrupted
  /\ \E id \in DOMAIN runtimes[f].switches : runtimes[f].switches[id].aborted

\* C26: when a fiber suspended in join or wait on fiber 1 is interrupted, its
\* listener leaves the result cell of fiber 1 and the listeners of the other
\* fibers stay; the interrupted waiter is never resumed afterwards and none of
\* its continuations is applied; and when fiber 1 has terminated and the host
\* is idle, every other started, uninterrupted observer has been resumed once.
C26_InterruptedWaiterUnlistened ==
  [][\A f \in Fibers :
       /\ (IsObserver(f) /\ ListenersOf(f, 1) # <<>>
             /\ ~runtimes[f].interrupted /\ runtimes'[f].interrupted) =>
            /\ ListenersOf(f, 1)' = <<>>
            /\ \A g \in Fibers \ {f} : ListenersOf(g, 1)' = ListenersOf(g, 1)
            /\ runtimes'[f].result = Interrupted
       /\ InterruptedWaiting(f) =>
            /\ runtimes[f].calls = <<>>
            /\ ListenersOf(f, 1) = <<>>
            /\ runtimes'[f] = runtimes[f]
            /\ \A g \in Fibers \ {f} :
                 (IsObserver(g) /\ runtimes[1].result # NoResult /\ hostStack = <<>>
                    /\ runtimes[g].started /\ ~runtimes[g].interrupted) =>
                   Len(runtimes[g].calls) = 1
    ]_allVars

\* C26 witness: fiber 2 was interrupted while it waited in join, fiber 1
\* terminated later with a value, fiber 3 was notified and fiber 2 was not
C26_Witness ==
  /\ forked[2] = Observed(join(1), 2)
  /\ InterruptedWaiting(2)
  /\ runtimes[1].result = Value(UVal(1)) /\ runtimes[1].switches # <<>>
  /\ runtimes[3].calls = << <<ChainId(3), Value(UVal(1))>> >>
  /\ runtimes[2].calls = <<>>
  /\ hostStack = <<>>

\* a set of the full result cell was attempted: fatal is raised by OneShot.set,
\* whether the error reaches the host or is caught by step
SetAttemptedTwice == fatal

\* C27: in no interleaving of start, resume, resumeLater delivery, interrupt
\* and finalizer steps does the runtime try to set its result cell a second
\* time.
C27_NoDoubleSet == ~SetAttemptedTwice /\ Len(history) <= 1

\* complete() is skipped when the result is already set: a boundary that was
\* cancelled by the interrupt had its result scheduled, and the late delivery
\* left the outcome as it was
C27_ReachedCompleteSkipped ==
  /\ program = AsyncLater(Value(UVal(1)), TRUE)
  /\ result = Interrupted /\ history = <<Interrupted>>
  /\ switches[1].aborted /\ switches[1].later = NoResult
  /\ ~fatal

\* how many times the earlier runtime logged id
EarlyCount(id) == Cardinality({i \in DOMAIN early.log : early.log[i] = id})

\* what the earlier unwindError does: it sets Failed at once and leaves the
\* call frames where they are
C28_EarlyNeverUnwinds ==
  [][(early.result = NoResult /\ early'.result # NoResult
        /\ early'.result.tag = "failed") =>
       /\ early'.callFrames = early.callFrames
       /\ early'.calls = early.calls
       /\ early'.log = early.log
    ]_allVars

\* C28: in the Runtime of packages/waveguide/src/runtime.ts, when the result is
\* set to Failed, unwindError has popped the frames up to an Error frame or to
\* the bottom of the stack: no chainerror handler above which the failure was
\* raised is left uninvoked on the stack, and every finalizer whose Finalize
\* frame was pushed by finally or bracket has run.
C28_EarlyUnwindError ==
  (early.result # NoResult /\ early.result.tag = "failed") =>
    /\ \A i \in DOMAIN early.callFrames : early.callFrames[i].tag \notin {"error", "finalize"}
    /\ \A id \in early.installed : EarlyCount(id) = 1

\* a failure under a chainerror handler ended the earlier runtime
C28_ReachedFailedUnderHandler ==
  /\ early.program = ChainError(Failed("e"), UserK(ErrorId(1), Of(UVal(3))))
  /\ early.result = FailedWith(Raise("e"))
  /\ early.callFrames # <<>> /\ early.calls = <<>>
====
